---- MODULE Spec2Model ----
(***************************************************************************)
(* Verification model of the cdr_pipeline ingestion pipeline               *)
(* (pro-cert-notes/open-banking-lakehouse).                                *)
(*                                                                         *)
(*   SpecFp    : drift.py, _extract_paths / fingerprint_payload as pure    *)
(*               functions over bounded JSON values.                       *)
(*   SpecDrift : drift.py, record_and_detect_drift against the             *)
(*               bronze.schema_fingerprint / schema_drift_event tables.    *)
(*   Spec      : ingest.py, run_ingest with its transactions, discovery,   *)
(*               pagination and detail fetch.                              *)
(*                                                                         *)
(* Strings are sequences of character codes so that the path               *)
(* concatenation, the lexicographic sort and the newline join of the       *)
(* fingerprint are computed as the code computes them.  SHA-256 is         *)
(* modelled as an injective function: the digest of a text is the text.    *)
(***************************************************************************)
EXTENDS Integers, Sequences, FiniteSets, TLC

VARIABLES
    fp_pc,        \* SpecFp: which calls of fingerprint_payload have been made
    fp_x,         \* SpecFp: the payload
    fp_md,        \* SpecFp: max_depth
    fp_y,         \* SpecFp: a second payload related to fp_x
    fp_rel,       \* SpecFp: how fp_y is related to fp_x
    fp_md2,       \* SpecFp: a second max_depth
    fp_out,       \* SpecFp: fingerprint_payload(fp_x, fp_md)
    fp_out_y,     \* SpecFp: fingerprint_payload(fp_y, fp_md)
    fp_out_md2,   \* SpecFp: fingerprint_payload(fp_x, fp_md2)
    dr_db,        \* SpecDrift: the database tables
    dr_old,       \* SpecDrift: old_hash as read by the last call
    dr_result,    \* SpecDrift: "none", "ok" (returned) or "raised"
    committed,    \* Spec: the committed database state
    conn,         \* Spec: the database as the open connection sees it (with uncommitted writes)
    cfg,          \* Spec: Config.from_env() and the provider_limit argument
    pc,           \* Spec: position in run_ingest
    disc,         \* Spec: outcome of discovery: "pending", "ok", "transport", "status"
    brands,       \* Spec: run_ingest.brands
    idx,          \* Spec: index of the provider of the for loop (1-based)
    next_url,     \* Spec: _fetch_products_for_brand.next_url
    seen_urls,    \* Spec: _fetch_products_for_brand.seen_urls
    page_num,     \* Spec: _fetch_products_for_brand.page_num
    stop,         \* Spec: how the while loop of _fetch_products_for_brand was left
    product_ids,  \* Spec: _fetch_products_for_brand.product_ids
    todo,         \* Spec: product ids _fetch_product_details has still to request
    now,          \* Spec: the value of the clock at the last datetime.utcnow()
    commits,      \* Spec: number of conn.commit() calls
    rollbacks,    \* Spec: number of conn.rollback() calls
    requests,     \* Spec: provider requests issued, in order
    results,      \* Spec: how the unit of each provider ended, in order
    ht_pc,        \* SpecHttp: position in get_with_version_fallback
    ht_preferred, \* SpecHttp: preferred_xv
    ht_fallback,  \* SpecHttp: fallback_versions
    ht_i,         \* SpecHttp: index in versions of the next attempt (1-based)
    ht_last_resp, \* SpecHttp: last_resp
    ht_last_exc,  \* SpecHttp: last_exc is not None
    ht_sent,      \* SpecHttp: the requests sent, in order, each with its outcome
    ht_ret,       \* SpecHttp: what the call returned or raised
    up_db,        \* SpecUpsert: the database tables
    up_hist,      \* SpecUpsert: the writes made so far, in order
    gt_pc,        \* SpecGate: "idle", "call" or "done"
    gt_in,        \* SpecGate: the arguments of _gate_min / _gate_max
    gt_out,       \* SpecGate: the GateResult returned
    qa_pc,        \* SpecQa: position in run_qa
    qa_cfg,       \* SpecQa: the thresholds and switches run_qa works with
    qa_dbt,       \* SpecQa: run_qa.dbt_passed and dbt_details
    qa_tx,        \* SpecQa: state of the connection's transaction: "ok" or "aborted"
    qa_results,   \* SpecQa: run_qa.gate_results
    qa_lookup,    \* SpecQa: what the catalog answered to the last relation lookup
    qa_rel,       \* SpecQa: the relation the last _resolve_relation returned
    qa_answer,    \* SpecQa: what the data answers to the last metric query
    qa_nqueries,  \* SpecQa: number of metric queries executed
    qa_rollbacks, \* SpecQa: number of conn.rollback() calls
    qa_table,     \* SpecQa: the committed rows of bronze.qa_gate_result
    qa_summary,   \* SpecQa: the status written to the summary file
    qa_ret,       \* SpecQa: what run_qa returned or raised
    resources,    \* Spec: the connection and the session, while they are open
    last_fetch,   \* Spec: how the last page or detail fetch ended: "fail", "resp"; "none" before
    cl_pc,        \* SpecClip: "call" or "done"
    cl_s,         \* SpecClip: the string handed to _clip_text
    cl_max,       \* SpecClip: max_chars
    cl_out,       \* SpecClip: the string returned
    rc_pc,        \* SpecRace: where each writer is in record_and_detect_drift
    rc_in,        \* SpecRace: the payload and observed_at of each writer
    rc_old,       \* SpecRace: old_hash as each writer read it
    rc_overlap    \* SpecRace: a writer read while another was between its read and its write

fpvars == <<fp_pc, fp_x, fp_md, fp_y, fp_rel, fp_md2, fp_out, fp_out_y, fp_out_md2>>

drvars == <<dr_db, dr_old, dr_result>>

invars == <<committed, conn, cfg, pc, disc, brands, idx, next_url, seen_urls, page_num, stop,
            product_ids, todo, now, commits, rollbacks, requests, results, resources, last_fetch>>

htvars == <<ht_pc, ht_preferred, ht_fallback, ht_i, ht_last_resp, ht_last_exc, ht_sent, ht_ret>>

upvars == <<up_db, up_hist>>

gtvars == <<gt_pc, gt_in, gt_out>>

qavars == <<qa_pc, qa_cfg, qa_dbt, qa_tx, qa_results, qa_lookup, qa_rel, qa_answer, qa_nqueries,
            qa_rollbacks, qa_table, qa_summary, qa_ret>>

clvars == <<cl_pc, cl_s, cl_max, cl_out>>

rcvars == <<rc_pc, rc_in, rc_old, rc_overlap>>

vars == <<fp_pc, fp_x, fp_md, fp_y, fp_rel, fp_md2, fp_out, fp_out_y, fp_out_md2,
          dr_db, dr_old, dr_result,
          committed, conn, cfg, pc, disc, brands, idx, next_url, seen_urls, page_num, stop,
          product_ids, todo, now, commits, rollbacks, requests, results,
          ht_pc, ht_preferred, ht_fallback, ht_i, ht_last_resp, ht_last_exc, ht_sent, ht_ret,
          up_db, up_hist, gt_pc, gt_in, gt_out,
          qa_pc, qa_cfg, qa_dbt, qa_tx, qa_results, qa_lookup, qa_rel, qa_answer, qa_nqueries,
          qa_rollbacks, qa_table, qa_summary, qa_ret,
          resources, last_fetch, cl_pc, cl_s, cl_max, cl_out, rc_pc, rc_in, rc_old, rc_overlap>>

(***************************************************************************)
(* Bounds                                                                  *)
(***************************************************************************)
MaxHeight == 3      \* nesting height of the generated payloads
MaxItems == 4       \* longest generated array
MaxDepthArg == 2    \* largest max_depth argument tried
MaxTime == 3        \* timestamps are at most MaxTime
MaxFpRows == 3      \* calls of record_and_detect_drift stop at this many fingerprint rows
MaxVersion == 2     \* x-v versions are 1..MaxVersion
MaxFallbacks == 2   \* longest fallback_versions list
MaxWrites == 3      \* longest sequence of upserts tried
MaxMetric == 7      \* metric values and thresholds of the gates are 0..MaxMetric
MaxStrLen == 5       \* longest string handed to _clip_text
MaxClipArg == 6      \* largest max_chars handed to _clip_text

(***************************************************************************)
(* Generic helpers                                                         *)
(***************************************************************************)
Range(s) == {s[i] : i \in DOMAIN s}

Min(a, b) == IF a < b THEN a ELSE b

None == [none |-> TRUE]

(***************************************************************************)
(* JSON values.  A dict keeps its items in insertion order, as a Python    *)
(* dict does: kids is a sequence of <<key, value>> pairs with distinct     *)
(* keys.  A list has a sequence of values.                                 *)
(***************************************************************************)
Scalar == [t |-> "scalar", kids |-> <<>>]
Dict(kv) == [t |-> "dict", kids |-> kv]
List(items) == [t |-> "list", kids |-> items]

ChDot == 46
ChOpen == 91
ChClose == 93
ChNewline == 10
KeyA == <<97>>
KeyB == <<98>>
Keys == {KeyA, KeyB}

SmallValues == {Scalar, Dict(<< <<KeyA, Scalar>> >>)}

RECURSIVE SeqsUpTo(_, _)
SeqsUpTo(S, n) ==
    IF n = 0 THEN {<<>>}
    ELSE LET R == SeqsUpTo(S, n - 1)
         IN R \cup {Append(r, s) : r \in {q \in R : Len(q) = n - 1}, s \in S}

RECURSIVE Tree(_)
Tree(h) ==
    IF h = 0 THEN {Scalar}
    ELSE LET V == Tree(h - 1)
         IN V \cup {Dict(<<>>), List(<<>>)}
              \cup {Dict(<< <<k, v>> >>) : k \in Keys, v \in V}
              \cup {Dict(<< <<KeyA, v>>, <<KeyB, Scalar>> >>) : v \in V}
              \cup {Dict(<< <<KeyB, Scalar>>, <<KeyA, v>> >>) : v \in V}
              \cup {List(<<v>>) : v \in V}

(* lists of up to MaxItems elements, bare or as the value of a key *)
WideLists == {List(items) : items \in SeqsUpTo(SmallValues, MaxItems)}

Payloads == Tree(MaxHeight) \cup WideLists \cup {Dict(<< <<KeyA, w>> >>) : w \in WideLists}

(***************************************************************************)
(* drift.py: _extract_paths                                                *)
(***************************************************************************)
(* rec with the depth test off by one: one level too many is traversed *)
RECURSIVE rec_one_deeper(_, _, _, _)
rec_one_deeper(x, p, depth, max_depth) ==
    IF depth > max_depth + 1 THEN {}
    ELSE IF x.t = "dict"
    THEN UNION { LET np == IF p # <<>> THEN p \o <<ChDot>> \o kv[1] ELSE kv[1]
                 IN {np} \cup rec_one_deeper(kv[2], np, depth + 1, max_depth)
                 : kv \in Range(x.kids) }
    ELSE IF x.t = "list"
    THEN LET np == IF p # <<>> THEN p \o <<ChOpen, ChClose>> ELSE <<ChOpen, ChClose>>
         IN {np} \cup UNION { rec_one_deeper(x.kids[i], np, depth + 1, max_depth)
                              : i \in 1..Min(3, Len(x.kids)) }
    ELSE {}

(* rec with x[:4] instead of x[:3]: a fourth array element is traversed *)
RECURSIVE rec_four_elements(_, _, _, _)
rec_four_elements(x, p, depth, max_depth) ==
    IF depth > max_depth THEN {}
    ELSE IF x.t = "dict"
    THEN UNION { LET np == IF p # <<>> THEN p \o <<ChDot>> \o kv[1] ELSE kv[1]
                 IN {np} \cup rec_four_elements(kv[2], np, depth + 1, max_depth)
                 : kv \in Range(x.kids) }
    ELSE IF x.t = "list"
    THEN LET np == IF p # <<>> THEN p \o <<ChOpen, ChClose>> ELSE <<ChOpen, ChClose>>
         IN {np} \cup UNION { rec_four_elements(x.kids[i], np, depth + 1, max_depth)
                              : i \in 1..Min(4, Len(x.kids)) }
    ELSE {}

RECURSIVE rec(_, _, _, _)
rec(x, p, depth, max_depth) ==
    IF depth > max_depth THEN {}
    ELSE IF x.t = "dict"
    THEN UNION { LET np == IF p # <<>> THEN p \o <<ChDot>> \o kv[1] ELSE kv[1]
                 IN {np} \cup rec(kv[2], np, depth + 1, max_depth)
                 : kv \in Range(x.kids) }
    ELSE IF x.t = "list"
    THEN LET np == IF p # <<>> THEN p \o <<ChOpen, ChClose>> ELSE <<ChOpen, ChClose>>
         IN {np} \cup UNION { rec(x.kids[i], np, depth + 1, max_depth)
                              : i \in 1..Min(3, Len(x.kids)) }
    ELSE {}

extract_paths(obj, max_depth) == rec(obj, <<>>, 0, max_depth)

(***************************************************************************)
(* Python's sorted() on str: lexicographic by code point, a proper prefix  *)
(* sorts first.                                                            *)
(***************************************************************************)
RECURSIVE StrLess(_, _)
StrLess(a, b) ==
    IF a = <<>> THEN b # <<>>
    ELSE IF b = <<>> THEN FALSE
    ELSE IF a[1] # b[1] THEN a[1] < b[1]
    ELSE StrLess(Tail(a), Tail(b))

RECURSIVE sorted(_)
sorted(S) ==
    IF S = {} THEN <<>>
    ELSE LET m == CHOOSE a \in S : \A b \in S \ {a} : StrLess(a, b)
         IN <<m>> \o sorted(S \ {m})

RECURSIVE join(_)
join(paths) ==
    IF paths = <<>> THEN <<>>
    ELSE IF Len(paths) = 1 THEN paths[1]
    ELSE paths[1] \o <<ChNewline>> \o join(Tail(paths))

sha256(text) == [digest |-> text]

(***************************************************************************)
(* drift.py: fingerprint_payload                                           *)
(***************************************************************************)
(* the paths in the order the traversal meets them, first occurrence kept *)
RECURSIVE rec_in_order(_, _, _, _, _)
rec_in_order(x, p, depth, max_depth, i) ==
    IF depth > max_depth \/ x.t = "scalar" THEN <<>>
    ELSE IF x.t = "dict"
    THEN IF i > Len(x.kids) THEN <<>>
         ELSE LET np == IF p # <<>> THEN p \o <<ChDot>> \o x.kids[i][1] ELSE x.kids[i][1]
              IN <<np>> \o rec_in_order(x.kids[i][2], np, depth + 1, max_depth, 1)
                       \o rec_in_order(x, p, depth, max_depth, i + 1)
    ELSE LET np == IF p # <<>> THEN p \o <<ChOpen, ChClose>> ELSE <<ChOpen, ChClose>>
         IN IF i > Min(3, Len(x.kids)) THEN (IF i = 1 THEN <<np>> ELSE <<>>)
            ELSE (IF i = 1 THEN <<np>> ELSE <<>>)
                     \o rec_in_order(x.kids[i], np, depth + 1, max_depth, 1)
                     \o (IF i < Min(3, Len(x.kids))
                         THEN rec_in_order(x, p, depth, max_depth, i + 1) ELSE <<>>)

RECURSIVE Dedup(_)
Dedup(s) ==
    IF s = <<>> THEN <<>>
    ELSE LET front == Dedup(SubSeq(s, 1, Len(s) - 1))
         IN IF s[Len(s)] \in Range(front) THEN front ELSE Append(front, s[Len(s)])

(* fingerprint_payload without the sort: list(paths) instead of sorted(paths) *)
fingerprint_payload_unsorted(payload, max_depth) ==
    LET paths == Dedup(rec_in_order(payload, <<>>, 0, max_depth, 1))
    IN [h |-> sha256(join(paths)), paths |-> paths]

fingerprint_payload(payload, max_depth) ==
    LET paths == sorted(extract_paths(payload, max_depth))
    IN [h |-> sha256(join(paths)), paths |-> paths]

(***************************************************************************)
(* Related inputs for the relational properties of the fingerprint         *)
(***************************************************************************)
SeqProduct(sets) ==
    {s \in [DOMAIN sets -> UNION Range(sets)] : \A i \in DOMAIN sets : s[i] \in sets[i]}

Reorder(s, pi) == [i \in DOMAIN s |-> s[pi[i]]]

RECURSIVE KeyPerms(_)
KeyPerms(x) ==
    IF x.t = "dict"
    THEN LET choices == SeqProduct([i \in DOMAIN x.kids |->
                            {<<x.kids[i][1], v>> : v \in KeyPerms(x.kids[i][2])}])
         IN {Dict(Reorder(c, pi)) : c \in choices, pi \in Permutations(DOMAIN x.kids)}
    ELSE IF x.t = "list"
    THEN {List(c) : c \in SeqProduct([i \in DOMAIN x.kids |-> KeyPerms(x.kids[i])])}
    ELSE {x}

DeepRepl(x) == {x, Scalar, List(<< Dict(<< <<KeyB, Scalar>> >>) >>)}

RECURSIVE DeepVariants(_, _, _)
DeepVariants(x, depth, max_depth) ==
    IF depth > max_depth THEN DeepRepl(x)
    ELSE IF x.t = "dict"
    THEN {Dict(c) : c \in SeqProduct([i \in DOMAIN x.kids |->
                {<<x.kids[i][1], v>> : v \in DeepVariants(x.kids[i][2], depth + 1, max_depth)}])}
    ELSE IF x.t = "list"
    THEN {List(c) : c \in SeqProduct([i \in DOMAIN x.kids |->
                DeepVariants(x.kids[i], depth + 1, max_depth)])}
    ELSE {x}

(* what may stand in an array from index 3 on *)
TailChoices == {<<>>, <<Scalar>>, << Dict(<< <<KeyB, Scalar>> >>), Scalar >>}

(* the values that differ from x only in array elements at index 3 or beyond:
   such elements are replaced, dropped or added *)
RECURSIVE TailVariants(_)
TailVariants(x) ==
    IF x.t = "dict"
    THEN {Dict(c) : c \in SeqProduct([i \in DOMAIN x.kids |->
                {<<x.kids[i][1], v>> : v \in TailVariants(x.kids[i][2])}])}
    ELSE IF x.t = "list"
    THEN LET heads == SeqProduct([i \in 1..Min(3, Len(x.kids)) |-> TailVariants(x.kids[i])])
             tails == IF Len(x.kids) >= 3
                      THEN {SubSeq(x.kids, 4, Len(x.kids))} \cup TailChoices
                      ELSE {<<>>}
         IN {List(c \o t) : c \in heads, t \in tails}
    ELSE {x}

(***************************************************************************)
(* bootstrap.py: the tables of DDL, each a set of rows.  A primary key is  *)
(* enforced by the insert operators below.                                 *)
(***************************************************************************)
EmptyDb ==
    [pipeline_run |-> {}, data_holder_brand |-> {}, api_call_log |-> {},
     schema_fingerprint |-> {}, schema_drift_event |-> {},
     products_raw |-> {}, product_detail_raw |-> {}]

DefaultMaxDepth == 4

Ok(db) == [raised |-> FALSE, db |-> db]
Raised(db) == [raised |-> TRUE, db |-> db]

(* INSERT INTO bronze.schema_fingerprint: PRIMARY KEY (provider_id, endpoint, observed_at) *)
insert_fingerprint(db, row) ==
    IF \E r \in db.schema_fingerprint :
          /\ r.provider_id = row.provider_id
          /\ r.endpoint = row.endpoint
          /\ r.observed_at = row.observed_at
    THEN Raised(db)
    ELSE Ok([db EXCEPT !.schema_fingerprint = @ \cup {row}])

(* INSERT INTO bronze.schema_drift_event: PRIMARY KEY (provider_id, endpoint, observed_at) *)
insert_drift_event(db, row) ==
    IF \E r \in db.schema_drift_event :
          /\ r.provider_id = row.provider_id
          /\ r.endpoint = row.endpoint
          /\ r.observed_at = row.observed_at
    THEN Raised(db)
    ELSE Ok([db EXCEPT !.schema_drift_event = @ \cup {row}])

(***************************************************************************)
(* drift.py: record_and_detect_drift                                       *)
(***************************************************************************)
(* the SELECT with the provider filter only: the endpoint is not compared *)
select_previous_hash_any_endpoint(db, provider_id, endpoint) ==
    LET rows == {r \in db.schema_fingerprint : r.provider_id = provider_id}
        top == {r \in rows : \A q \in rows : q.observed_at <= r.observed_at}
    IN IF rows = {} THEN {None} ELSE {r.fingerprint_hash : r \in top}

(* mutant: ORDER BY observed_at ASC, the oldest row *)
select_previous_hash_oldest(db, provider_id, endpoint) ==
    LET rows == {r \in db.schema_fingerprint :
                    r.provider_id = provider_id /\ r.endpoint = endpoint}
        top == {r \in rows : \A q \in rows : r.observed_at <= q.observed_at}
    IN IF rows = {} THEN {None} ELSE {r.fingerprint_hash : r \in top}

(* SELECT fingerprint_hash ... WHERE provider_id = %s AND endpoint = %s
   ORDER BY observed_at DESC LIMIT 1; rows[0][0] if rows else None.
   The result is the set of values the query can return. *)
select_previous_hash(db, provider_id, endpoint) ==
    LET rows == {r \in db.schema_fingerprint :
                    r.provider_id = provider_id /\ r.endpoint = endpoint}
        top == {r \in rows : \A q \in rows : q.observed_at <= r.observed_at}
    IN IF rows = {} THEN {None} ELSE {r.fingerprint_hash : r \in top}

DriftNote == "Schema/path fingerprint changed"

(* the payloads handed to record_and_detect_drift *)
ShapeAB == Dict(<< <<KeyA, Scalar>>, <<KeyB, Scalar>> >>)
ShapeList == Dict(<< <<KeyA, List(<<Scalar>>)>> >>)
DriftPayloads == {ShapeAB, ShapeList}
(* a JSON document that is a list, not an object *)
ShapeTopList == List(<<Scalar>>)
KnownPayloads == DriftPayloads \cup {ShapeTopList}

(* new_hash, paths = fingerprint_payload(payload): max_depth takes its
   default; tabulated over the payloads that are handed in *)
fingerprint_default == [payload \in KnownPayloads |-> fingerprint_payload(payload, DefaultMaxDepth)]

fingerprint_row(fp, provider_id, endpoint, observed_at, run_id) ==
    [provider_id |-> provider_id, endpoint |-> endpoint,
     fingerprint_hash |-> fp.h, fingerprint_paths |-> fp.paths,
     observed_at |-> observed_at, run_id |-> run_id]

drift_event_row(old_hash, fp, provider_id, endpoint, observed_at, run_id) ==
    [provider_id |-> provider_id, endpoint |-> endpoint,
     old_fingerprint_hash |-> old_hash, new_fingerprint_hash |-> fp.h,
     observed_at |-> observed_at, run_id |-> run_id, note |-> DriftNote]

WithOld(res, old_hash) == [raised |-> res.raised, db |-> res.db, old_hash |-> old_hash]

(* the drift test without the "old_hash and" guard *)
record_and_detect_drift_unguarded(db, provider_id, endpoint, payload, observed_at, run_id) ==
    LET fp == fingerprint_default[payload]
        old_hash == CHOOSE h \in select_previous_hash(db, provider_id, endpoint) : TRUE
        ins == insert_fingerprint(db, fingerprint_row(fp, provider_id, endpoint, observed_at, run_id))
    IN IF ins.raised THEN WithOld(ins, old_hash)
       ELSE IF old_hash # fp.h
       THEN WithOld(insert_drift_event(ins.db,
                drift_event_row(old_hash, fp, provider_id, endpoint, observed_at, run_id)), old_hash)
       ELSE WithOld(ins, old_hash)

(* the fingerprint is stored only when it changed *)
record_and_detect_drift_on_change_only(db, provider_id, endpoint, payload, observed_at, run_id) ==
    LET fp == fingerprint_default[payload]
        old_hash == CHOOSE h \in select_previous_hash(db, provider_id, endpoint) : TRUE
        ins == IF old_hash = fp.h THEN Ok(db)
               ELSE insert_fingerprint(db, fingerprint_row(fp, provider_id, endpoint, observed_at, run_id))
    IN IF ins.raised THEN WithOld(ins, old_hash)
       ELSE IF old_hash # None /\ old_hash # fp.h
       THEN WithOld(insert_drift_event(ins.db,
                drift_event_row(old_hash, fp, provider_id, endpoint, observed_at, run_id)), old_hash)
       ELSE WithOld(ins, old_hash)

(* The primary key of schema_fingerprint makes the latest row of a
   (provider, endpoint) unique, so the SELECT has one possible result.
   A hex digest is never the empty string, so "if old_hash" tests old_hash
   against None.  A failing INSERT raises out of the function. *)
record_and_detect_drift(db, provider_id, endpoint, payload, observed_at, run_id) ==
    LET fp == fingerprint_default[payload]
        old_hash == CHOOSE h \in select_previous_hash(db, provider_id, endpoint) : TRUE
        ins == insert_fingerprint(db, fingerprint_row(fp, provider_id, endpoint, observed_at, run_id))
    IN IF ins.raised THEN WithOld(ins, old_hash)
       ELSE IF old_hash # None /\ old_hash # fp.h
       THEN WithOld(insert_drift_event(ins.db,
                drift_event_row(old_hash, fp, provider_id, endpoint, observed_at, run_id)), old_hash)
       ELSE WithOld(ins, old_hash)

(***************************************************************************)
(* Each specification exercises one part of the program; the variables of  *)
(* the other parts stay at these values.                                   *)
(***************************************************************************)
FpIdle ==
    /\ fp_pc = "off" /\ fp_x = None /\ fp_md = 0 /\ fp_y = None /\ fp_rel = "none"
    /\ fp_md2 = 0 /\ fp_out = None /\ fp_out_y = None /\ fp_out_md2 = None

DriftIdle ==
    /\ dr_db = EmptyDb /\ dr_old = None /\ dr_result = "none"

IngestIdle ==
    /\ committed = EmptyDb /\ conn = EmptyDb /\ cfg = None /\ pc = "off" /\ disc = "pending"
    /\ brands = <<>> /\ idx = 0 /\ next_url = "" /\ seen_urls = {} /\ page_num = 0
    /\ stop = "none"
    /\ product_ids = {} /\ todo = <<>> /\ now = 0 /\ commits = 0 /\ rollbacks = 0
    /\ requests = <<>> /\ results = <<>> /\ resources = {} /\ last_fetch = "none"

HttpIdle ==
    /\ ht_pc = "off" /\ ht_preferred = 0 /\ ht_fallback = <<>> /\ ht_i = 0
    /\ ht_last_resp = None /\ ht_last_exc = FALSE /\ ht_sent = <<>> /\ ht_ret = None

UpsertIdle ==
    /\ up_db = EmptyDb /\ up_hist = <<>>

GateIdle ==
    /\ gt_pc = "off" /\ gt_in = None /\ gt_out = None

QaIdle ==
    /\ qa_pc = "off" /\ qa_cfg = None /\ qa_dbt = None /\ qa_tx = "ok" /\ qa_results = <<>>
    /\ qa_lookup = None /\ qa_rel = None /\ qa_answer = None /\ qa_nqueries = 0
    /\ qa_rollbacks = 0 /\ qa_table = {} /\ qa_summary = None /\ qa_ret = None

ClipIdle ==
    /\ cl_pc = "off" /\ cl_s = <<>> /\ cl_max = 0 /\ cl_out = <<>>

RaceIdle ==
    /\ rc_pc = <<>> /\ rc_in = <<>> /\ rc_old = <<>> /\ rc_overlap = FALSE

OthersIdle ==
    /\ UpsertIdle /\ GateIdle /\ QaIdle /\ ClipIdle /\ RaceIdle

(***************************************************************************)
(* SpecFp                                                                  *)
(***************************************************************************)
InitFp ==
    /\ fp_pc = "init"
    /\ fp_x \in Payloads
    /\ fp_md \in 0..MaxDepthArg
    /\ fp_y = None
    /\ fp_rel = "none"
    /\ fp_md2 = fp_md
    /\ fp_out = None
    /\ fp_out_y = None
    /\ fp_out_md2 = None
    /\ DriftIdle
    /\ IngestIdle
    /\ HttpIdle
    /\ OthersIdle

FpCall ==
    /\ fp_pc = "init"
    /\ fp_out' = fingerprint_payload(fp_x, fp_md)
    /\ fp_pc' = "called"
    /\ UNCHANGED <<fp_x, fp_md, fp_y, fp_rel, fp_md2, fp_out_y, fp_out_md2>>
    /\ UNCHANGED drvars
    /\ UNCHANGED invars
    /\ UNCHANGED <<htvars, upvars, gtvars, qavars, clvars, rcvars>>

(* y differs from x only in the order of the keys of its dicts *)
FpCallPermuted ==
    /\ fp_pc = "called"
    /\ \E y \in KeyPerms(fp_x) :
          /\ fp_y' = y
          /\ fp_out_y' = fingerprint_payload(y, fp_md)
    /\ fp_rel' = "perm"
    /\ fp_pc' = "compared"
    /\ UNCHANGED <<fp_x, fp_md, fp_md2, fp_out, fp_out_md2>>
    /\ UNCHANGED drvars
    /\ UNCHANGED invars
    /\ UNCHANGED <<htvars, upvars, gtvars, qavars, clvars, rcvars>>

(* y differs from x only in values nested deeper than max_depth *)
FpCallDeepVariant ==
    /\ fp_pc = "called"
    /\ \E y \in DeepVariants(fp_x, 0, fp_md) :
          /\ fp_y' = y
          /\ fp_out_y' = fingerprint_payload(y, fp_md)
    /\ fp_rel' = "deep"
    /\ fp_pc' = "compared"
    /\ UNCHANGED <<fp_x, fp_md, fp_md2, fp_out, fp_out_md2>>
    /\ UNCHANGED drvars
    /\ UNCHANGED invars
    /\ UNCHANGED <<htvars, upvars, gtvars, qavars, clvars, rcvars>>

(* y differs from x only in array elements at index 3 or beyond *)
FpCallTailVariant ==
    /\ fp_pc = "called"
    /\ \E y \in TailVariants(fp_x) :
          /\ fp_y' = y
          /\ fp_out_y' = fingerprint_payload(y, fp_md)
    /\ fp_rel' = "tail"
    /\ fp_pc' = "compared"
    /\ UNCHANGED <<fp_x, fp_md, fp_md2, fp_out, fp_out_md2>>
    /\ UNCHANGED drvars
    /\ UNCHANGED invars
    /\ UNCHANGED <<htvars, upvars, gtvars, qavars, clvars, rcvars>>

(* the same payload under another max_depth *)
FpCallOtherDepth ==
    /\ fp_pc = "called"
    /\ \E d \in 0..MaxDepthArg :
          /\ fp_md2' = d
          /\ fp_out_md2' = fingerprint_payload(fp_x, d)
    /\ fp_rel' = "depth"
    /\ fp_pc' = "compared"
    /\ UNCHANGED <<fp_x, fp_md, fp_y, fp_out, fp_out_y>>
    /\ UNCHANGED drvars
    /\ UNCHANGED invars
    /\ UNCHANGED <<htvars, upvars, gtvars, qavars, clvars, rcvars>>

NextFp ==
    \/ FpCall
    \/ FpCallPermuted
    \/ FpCallDeepVariant
    \/ FpCallTailVariant
    \/ FpCallOtherDepth

SpecFp == InitFp /\ [][NextFp]_vars

(***************************************************************************)
(* SpecDrift: calls of record_and_detect_drift with arbitrary arguments.   *)
(* A call that raises leaves the tables as they were (the statement that   *)
(* failed wrote nothing, and the caller's transaction is rolled back).     *)
(***************************************************************************)
ProviderIds == {"p1", "p2"}
EpProducts == "banking:get-products"
EpDetail == "banking:get-product-detail"
Endpoints == {EpProducts, EpDetail}
DriftKeys == {<<"p1", EpProducts>>, <<"p1", EpDetail>>, <<"p2", EpProducts>>}

Times == 1..MaxTime
RunIds == {1, 2}

InitDrift ==
    /\ FpIdle
    /\ dr_db = EmptyDb
    /\ dr_old = None
    /\ dr_result = "none"
    /\ IngestIdle
    /\ HttpIdle
    /\ OthersIdle

DriftCall(k, payload, observed_at, run_id) ==
    /\ Cardinality(dr_db.schema_fingerprint) < MaxFpRows
    \* runs follow one another: a call belongs to the run of the last call or to a later one
    /\ \A r \in dr_db.schema_fingerprint : r.run_id <= run_id
    /\ LET res == record_and_detect_drift(dr_db, k[1], k[2], payload, observed_at, run_id)
       IN /\ dr_old' = res.old_hash
          /\ dr_result' = IF res.raised THEN "raised" ELSE "ok"
          /\ dr_db' = IF res.raised THEN dr_db ELSE res.db
    /\ UNCHANGED fpvars
    /\ UNCHANGED invars
    /\ UNCHANGED <<htvars, upvars, gtvars, qavars, clvars, rcvars>>

NextDrift ==
    \E k \in DriftKeys, payload \in DriftPayloads, t \in Times, run_id \in RunIds :
        DriftCall(k, payload, t, run_id)

SpecDrift == InitDrift /\ [][NextDrift]_vars

(***************************************************************************)
(* db.py / ingest.py: the statements of the provenance recorder            *)
(***************************************************************************)
RunId == "run-1"
RegisterProvider == "cdr-register"
EpRegister == "cdr-register:brands-summary"
RegisterUrl == "brands/summary"

(* db.py transaction(conn) without the rollback: the exception is re-raised
   but the uncommitted writes stay on the connection *)
transaction_without_rollback(raised, cm, cn) ==
    IF raised
    THEN [committed |-> cm, conn |-> cn, commits |-> 0, rollbacks |-> 0]
    ELSE [committed |-> cn, conn |-> cn, commits |-> 1, rollbacks |-> 0]

(* db.py transaction(conn): the exit of the with block.  cm is the committed
   state, cn the connection's state; commit publishes cn, rollback discards
   the uncommitted writes. *)
transaction(raised, cm, cn) ==
    IF raised
    THEN [committed |-> cm, conn |-> cm, commits |-> 0, rollbacks |-> 1]
    ELSE [committed |-> cn, conn |-> cn, commits |-> 1, rollbacks |-> 0]

(* mutant: the conflict target is (run_id, endpoint, url), without the provider *)
log_api_call_key_without_provider(db, run_id, provider_id, endpoint, url, status, error) ==
    LET row == [run_id |-> run_id, provider_id |-> provider_id, endpoint |-> endpoint,
                url |-> url, http_status |-> status, error |-> error]
        others == {r \in db.api_call_log :
                      ~(r.run_id = run_id /\ r.endpoint = endpoint /\ r.url = url)}
    IN [db EXCEPT !.api_call_log = others \cup {row}]

(* mutant: ON CONFLICT DO NOTHING, the row first written stays *)
log_api_call_do_nothing(db, run_id, provider_id, endpoint, url, status, error) ==
    LET row == [run_id |-> run_id, provider_id |-> provider_id, endpoint |-> endpoint,
                url |-> url, http_status |-> status, error |-> error]
        same == {r \in db.api_call_log :
                    /\ r.run_id = run_id /\ r.provider_id = provider_id
                    /\ r.endpoint = endpoint /\ r.url = url}
    IN IF same = {} THEN [db EXCEPT !.api_call_log = @ \cup {row}] ELSE db

(* INSERT INTO bronze.api_call_log ... ON CONFLICT (run_id, provider_id, endpoint, url) DO UPDATE *)
log_api_call(db, run_id, provider_id, endpoint, url, status, error) ==
    LET row == [run_id |-> run_id, provider_id |-> provider_id, endpoint |-> endpoint,
                url |-> url, http_status |-> status, error |-> error]
        others == {r \in db.api_call_log :
                      ~(/\ r.run_id = run_id /\ r.provider_id = provider_id
                        /\ r.endpoint = endpoint /\ r.url = url)}
    IN [db EXCEPT !.api_call_log = others \cup {row}]

(* INSERT INTO raw.products_raw ... ON CONFLICT (run_id, provider_id, endpoint, page_num) DO UPDATE;
   brand_name and url are not in the SET list and keep the first value *)
insert_products_raw(db, run_id, provider_id, endpoint, url, page, status, payload) ==
    LET same == {r \in db.products_raw :
                    /\ r.run_id = run_id /\ r.provider_id = provider_id
                    /\ r.endpoint = endpoint /\ r.page_num = page}
        kept_url == IF same = {} THEN url ELSE (CHOOSE r \in same : TRUE).url
        row == [run_id |-> run_id, provider_id |-> provider_id, endpoint |-> endpoint,
                url |-> kept_url, page_num |-> page, http_status |-> status, payload |-> payload]
    IN [db EXCEPT !.products_raw = (@ \ same) \cup {row}]

(* INSERT INTO raw.product_detail_raw ... ON CONFLICT (run_id, provider_id, product_id) DO UPDATE *)
insert_product_detail_raw(db, run_id, provider_id, product_id, url, status, payload) ==
    LET same == {r \in db.product_detail_raw :
                    /\ r.run_id = run_id /\ r.provider_id = provider_id
                    /\ r.product_id = product_id}
        kept_url == IF same = {} THEN url ELSE (CHOOSE r \in same : TRUE).url
        row == [run_id |-> run_id, provider_id |-> provider_id, product_id |-> product_id,
                url |-> kept_url, http_status |-> status, payload |-> payload]
    IN [db EXCEPT !.product_detail_raw = (@ \ same) \cup {row}]

(* INSERT INTO bronze.data_holder_brand ... ON CONFLICT (run_id, data_holder_brand_id) DO NOTHING,
   one row after the other as execute_batch does *)
RECURSIVE insert_brands(_, _, _)
insert_brands(db, run_id, bs) ==
    IF bs = <<>> THEN db
    ELSE LET b == Head(bs)
             exists == \E r \in db.data_holder_brand :
                          r.run_id = run_id /\ r.data_holder_brand_id = b.id
             db1 == IF exists THEN db
                    ELSE [db EXCEPT !.data_holder_brand = @ \cup
                            {[run_id |-> run_id, data_holder_brand_id |-> b.id,
                              product_base_uri |-> b.base]}]
         IN insert_brands(db1, run_id, Tail(bs))

(* mutant: the run row is not written *)
insert_pipeline_run_skipped(db, run_id, c) == db

(* INSERT INTO bronze.pipeline_run *)
insert_pipeline_run(db, run_id, c) ==
    [db EXCEPT !.pipeline_run = @ \cup
        {[run_id |-> run_id, fetch_product_details |-> c.fetch_product_details]}]

(***************************************************************************)
(* Inputs of a run: configuration, registry answer, provider answers       *)
(***************************************************************************)
(* provider_limit 0 stands for "not set" (None, or 0): both are falsy *)
Configs ==
    {[fetch_product_details |-> FALSE, provider_limit |-> 0, max_pages_per_provider |-> 2],
     [fetch_product_details |-> TRUE, provider_limit |-> 1, max_pages_per_provider |-> 1],
     [fetch_product_details |-> TRUE, provider_limit |-> 1, max_pages_per_provider |-> 2],
     [fetch_product_details |-> FALSE, provider_limit |-> -1, max_pages_per_provider |-> 1],
     [fetch_product_details |-> FALSE, provider_limit |-> 3, max_pages_per_provider |-> 1],
     [fetch_product_details |-> TRUE, provider_limit |-> 0, max_pages_per_provider |-> 0]}

B1 == [id |-> "p1", base |-> TRUE, banking |-> TRUE]
B2 == [id |-> "p2", base |-> TRUE, banking |-> TRUE]
BNoBase == [id |-> "p3", base |-> FALSE, banking |-> TRUE]
BEnergy == [id |-> "e1", base |-> TRUE, banking |-> FALSE]
RegistryBodies == {<<B1, B2>>, <<BNoBase, BEnergy, B1>>, <<BEnergy>>}

ProductsUrl == "u1"
PageUrls == {"u1", "u2", "u3"}
PageContents == {[value |-> ShapeAB, products |-> {"x"}],
                 [value |-> ShapeList, products |-> {"x", "y"}]}
ProductOrder == <<"x", "y">>

TransportFailure == [kind |-> "fail", status |-> 0, body |-> [t |-> "none"]]
Response(status, body) == [kind |-> "resp", status |-> status, body |-> body]

PageJsonBodies ==
    {[t |-> "json", value |-> c.value, products |-> c.products, next |-> n] :
        c \in PageContents, n \in PageUrls \cup {""}}

PageResponses ==
    {TransportFailure,
     Response(500, [t |-> "text"]),
     Response(200, [t |-> "empty"]),
     Response(200, [t |-> "invalid"]),
     Response(200, [t |-> "json", value |-> ShapeTopList, products |-> {}, next |-> ""])}
    \cup {Response(200, b) : b \in PageJsonBodies}

DetailResponses ==
    {TransportFailure,
     Response(500, [t |-> "text"]),
     Response(200, [t |-> "invalid"])}
    \cup {Response(200, [t |-> "json", value |-> v, products |-> {}, next |-> ""]) :
              v \in DriftPayloads}

(* datetime.utcnow(): the clock has not gone back since the last reading; it
   may return the same value twice *)
ClockReadings == {t \in {now, now + 1} : t <= MaxTime}

(***************************************************************************)
(* ingest.py: _fetch_products_for_brand, one iteration of the while loop   *)
(***************************************************************************)
(* the error column of an API call record: a text, or None for NULL *)
ErrTransport == [text |-> "HTTP request failed"]
ErrHttp == [text |-> "HTTP status"]
ErrJson == [text |-> "JSON parse error"]
ErrLoop == [text |-> "Pagination loop detected from links.next"]
ErrLimit == [text |-> "Pagination limit exceeded"]

(* _resolve_next_url for the links used here, which are absolute URLs (they
   have a scheme and a host): the link itself; "" when there is no link *)
resolve_next_url(current_url, nxt) == IF nxt = "" THEN "" ELSE nxt

(* payload_obj of a response: the parsed JSON, None when the status is not
   200, the body is empty or the body does not parse *)
payload_obj_of(resp) ==
    IF resp.status = 200 /\ resp.body.t = "json" THEN resp.body.value ELSE None

Stopped(db, url, seen, page, ids, requested, why) ==
    [db |-> db, raised |-> FALSE, cause |-> "none", exit |-> TRUE, requested |-> requested,
     stop |-> why,
     next_url |-> url, seen_urls |-> seen, page_num |-> page, product_ids |-> ids]

Failed(db, cause, url, seen, page, ids) ==
    [db |-> db, raised |-> TRUE, cause |-> cause, exit |-> TRUE, requested |-> TRUE,
     stop |-> "raised",
     next_url |-> url, seen_urls |-> seen, page_num |-> page, product_ids |-> ids]

(* mutant: there is no page limit *)
page_limit_exceeded_never(page, c) == FALSE

(* the limit test one page late *)
page_limit_exceeded_late(page, c) == page > c.max_pages_per_provider + 1

(* if page_num > cfg.max_pages_per_provider *)
page_limit_exceeded(page, c) == page > c.max_pages_per_provider

(* the page counter is not advanced *)
next_page_num_stuck(page) == page

(* page_num += 1 *)
next_page_num(page) == page + 1

(* the parse error is swallowed without a record *)
log_json_parse_error_dropped(db, provider_id, endpoint, url, status) == db

(* except Exception as e: payload_obj = None; _log_api_call(..., f"JSON parse error: {e}") *)
log_json_parse_error(db, provider_id, endpoint, url, status) ==
    log_api_call(db, RunId, provider_id, endpoint, url, status, ErrJson)

page_iteration(db, provider_id, url, seen, page, ids, c, resp, fetched_at) ==
    IF page_limit_exceeded(page, c)
    THEN Stopped(log_api_call(db, RunId, provider_id, EpProducts, url, 0, ErrLimit),
                 url, seen, page, ids, FALSE, "limit")
    ELSE IF url \in seen
    THEN Stopped(log_api_call(db, RunId, provider_id, EpProducts, url, 0, ErrLoop),
                 url, seen, page, ids, FALSE, "loop")
    ELSE LET seen1 == seen \cup {url}
         IN IF resp.kind = "fail"
            THEN Stopped(log_api_call(db, RunId, provider_id, EpProducts, url, 0, ErrTransport),
                         url, seen1, page, ids, TRUE, "transport")
            ELSE LET db1 == log_api_call(db, RunId, provider_id, EpProducts, url, resp.status,
                                         IF resp.status = 200 THEN None ELSE ErrHttp)
                     db2 == IF resp.status = 200 /\ resp.body.t = "invalid"
                            THEN log_json_parse_error(db1, provider_id, EpProducts, url,
                                                      resp.status)
                            ELSE db1
                     payload_obj == payload_obj_of(resp)
                     db3 == insert_products_raw(db2, RunId, provider_id, EpProducts, url, page,
                                                resp.status, payload_obj)
                 IN IF payload_obj = None
                    THEN Stopped(db3, url, seen1, page, ids, TRUE,
                                 IF resp.status # 200 THEN "status"
                                 ELSE IF resp.body.t = "empty" THEN "empty"
                                 ELSE "invalid")
                    ELSE LET dr == record_and_detect_drift(db3, provider_id, EpProducts,
                                                           payload_obj, fetched_at, RunId)
                         IN IF dr.raised
                            THEN Failed(dr.db, "drift", url, seen1, page, ids)
                            ELSE IF payload_obj.t # "dict"
                            THEN Failed(dr.db, "payload", url, seen1, page, ids)
                            ELSE LET nxt == resolve_next_url(url, resp.body.next)
                                 IN [db |-> dr.db, raised |-> FALSE, cause |-> "none",
                                     exit |-> (nxt = ""), requested |-> TRUE,
                                     stop |-> IF nxt = "" THEN "end" ELSE "none",
                                     next_url |-> nxt, seen_urls |-> seen1,
                                     page_num |-> next_page_num(page),
                                     product_ids |-> ids \cup resp.body.products]

(***************************************************************************)
(* ingest.py: _fetch_product_details, one iteration of the for loop        *)
(***************************************************************************)
(* the part of the iteration after a response was obtained: the call record,
   the parse, the raw detail row and the fingerprint *)
detail_responded(db, provider_id, product_id, resp, fetched_at) ==
    LET db1 == log_api_call(db, RunId, provider_id, EpDetail, product_id, resp.status,
                            IF resp.status = 200 THEN None ELSE ErrHttp)
        db2 == IF resp.status = 200 /\ resp.body.t = "invalid"
               THEN log_json_parse_error(db1, provider_id, EpDetail, product_id,
                                         resp.status)
               ELSE db1
        payload_obj == payload_obj_of(resp)
        db3 == insert_product_detail_raw(db2, RunId, provider_id, product_id, product_id,
                                         resp.status, payload_obj)
    IN IF payload_obj = None
       THEN [db |-> db3, raised |-> FALSE, cause |-> "none"]
       ELSE LET dr == record_and_detect_drift(db3, provider_id, EpDetail, payload_obj,
                                              fetched_at, RunId)
            IN [db |-> dr.db, raised |-> dr.raised,
                cause |-> IF dr.raised THEN "drift" ELSE "none"]

(* mutant: the transport failure of a detail request is recorded and then
   leaves the for loop as an exception *)
detail_iteration_transport_raises(db, provider_id, product_id, resp, fetched_at) ==
    IF resp.kind = "fail"
    THEN [db |-> log_api_call(db, RunId, provider_id, EpDetail, product_id, 0, ErrTransport),
          raised |-> TRUE, cause |-> "transport"]
    ELSE detail_responded(db, provider_id, product_id, resp, fetched_at)

(* except HttpRequestFailed: _log_api_call(..., 0, ..., str(e)); continue *)
detail_iteration(db, provider_id, product_id, resp, fetched_at) ==
    IF resp.kind = "fail"
    THEN [db |-> log_api_call(db, RunId, provider_id, EpDetail, product_id, 0, ErrTransport),
          raised |-> FALSE, cause |-> "none"]
    ELSE detail_responded(db, provider_id, product_id, resp, fetched_at)

(* sorted(product_ids) *)
SortedIds(ids) == SelectSeq(ProductOrder, LAMBDA x : x \in ids)

(* number of rows of cn that the committed state cm does not hold *)
Uncommitted(cm, cn) ==
    Cardinality(cn.pipeline_run \ cm.pipeline_run)
    + Cardinality(cn.data_holder_brand \ cm.data_holder_brand)
    + Cardinality(cn.api_call_log \ cm.api_call_log)
    + Cardinality(cn.schema_fingerprint \ cm.schema_fingerprint)
    + Cardinality(cn.schema_drift_event \ cm.schema_drift_event)
    + Cardinality(cn.products_raw \ cm.products_raw)
    + Cardinality(cn.product_detail_raw \ cm.product_detail_raw)

(***************************************************************************)
(* Spec: ingest.py run_ingest                                              *)
(***************************************************************************)
Init ==
    /\ FpIdle
    /\ DriftIdle
    /\ HttpIdle
    /\ OthersIdle
    /\ committed = EmptyDb
    /\ conn = EmptyDb
    /\ cfg \in Configs
    /\ pc = "start"
    /\ disc = "pending"
    /\ brands = <<>>
    /\ idx = 0
    /\ next_url = ""
    /\ seen_urls = {}
    /\ page_num = 0
    /\ stop = "none"
    /\ product_ids = {}
    /\ todo = <<>>
    /\ now = 1
    /\ commits = 0
    /\ rollbacks = 0
    /\ requests = <<>>
    /\ results = <<>>
    /\ resources = {"conn", "session"}
    /\ last_fetch = "none"

(* mutant: only the connection is closed, the session stays open *)
closing_exit_leaks_session(res) == res \ {"conn"}

(* with closing(conn), closing(session): leaving the block, by return or by
   exception, calls close() on both *)
closing_exit(res) == {}

(* with transaction(conn): execute(INSERT INTO bronze.pipeline_run ...) *)
InsertRun ==
    /\ pc = "start"
    /\ LET tx == transaction(FALSE, committed, insert_pipeline_run(conn, RunId, cfg))
       IN /\ committed' = tx.committed
          /\ conn' = tx.conn
          /\ commits' = commits + tx.commits
          /\ rollbacks' = rollbacks + tx.rollbacks
    /\ pc' = "discovery"
    /\ UNCHANGED <<cfg, disc, brands, idx, next_url, seen_urls, page_num, product_ids, todo,
                   now, requests, results>>
    /\ UNCHANGED stop
    /\ UNCHANGED <<resources, last_fetch>>
    /\ UNCHANGED <<fpvars, drvars, htvars, upvars, gtvars, qavars, clvars, rcvars>>

(* with transaction(conn): the INSERT into bronze.pipeline_run raises: the
   transaction is rolled back and the exception leaves the with block of the
   connection and the session, and run_ingest *)
InsertRunFails ==
    /\ pc = "start"
    /\ LET tx == transaction(TRUE, committed, conn)
       IN /\ committed' = tx.committed
          /\ conn' = tx.conn
          /\ commits' = commits + tx.commits
          /\ rollbacks' = rollbacks + tx.rollbacks
    /\ pc' = "raised"
    /\ resources' = closing_exit(resources)
    /\ UNCHANGED last_fetch
    /\ UNCHANGED <<cfg, disc, brands, idx, next_url, seen_urls, page_num, stop, product_ids,
                   todo, now, requests, results>>
    /\ UNCHANGED <<fpvars, drvars, htvars, upvars, gtvars, qavars, clvars, rcvars>>

(* the failure of discovery is swallowed: the run goes on without brands *)
discovery_failed_pc_swallowed == "loop"

(* the exception of _discover_brands leaves the with block and run_ingest *)
discovery_failed_pc == "raised"

(* with transaction(conn): _discover_brands raises: HttpRequestFailed after
   logging status 0 ("transport"), or RuntimeError after logging the
   non-200 status ("status") *)
DiscoverFail(kind) ==
    /\ pc = "discovery"
    /\ LET logged == IF kind = "transport"
                     THEN log_api_call(conn, RunId, RegisterProvider, EpRegister, RegisterUrl,
                                       0, ErrTransport)
                     ELSE log_api_call(conn, RunId, RegisterProvider, EpRegister, RegisterUrl,
                                       500, ErrHttp)
           tx == transaction(TRUE, committed, logged)
       IN /\ committed' = tx.committed
          /\ conn' = tx.conn
          /\ commits' = commits + tx.commits
          /\ rollbacks' = rollbacks + tx.rollbacks
    /\ disc' = kind
    /\ pc' = discovery_failed_pc
    /\ idx' = 1
    /\ UNCHANGED <<cfg, brands, next_url, seen_urls, page_num, product_ids, todo,
                   now, requests, results>>
    /\ UNCHANGED stop
    /\ resources' = IF pc' = "raised" THEN closing_exit(resources) ELSE resources
    /\ UNCHANGED last_fetch
    /\ UNCHANGED <<fpvars, drvars, htvars, upvars, gtvars, qavars, clvars, rcvars>>

(* mutant: the limit is applied whatever its sign *)
apply_limit_unsigned(bs, limit) ==
    SubSeq(bs, 1, Min(IF limit < 0 THEN 0 ELSE limit, Len(bs)))

(* brands[:limit] when limit is set and positive *)
apply_limit(bs, limit) ==
    IF limit > 0 THEN SubSeq(bs, 1, Min(limit, Len(bs))) ELSE bs

(* with transaction(conn): _discover_brands returns the brands of the filter
   industry, they are stored, the block commits; then the limit is applied *)
DiscoverOk(data) ==
    /\ pc = "discovery"
    /\ LET logged == log_api_call(conn, RunId, RegisterProvider, EpRegister, RegisterUrl,
                                  200, None)
           out == SelectSeq(data, LAMBDA b : b.banking)
           tx == transaction(FALSE, committed, insert_brands(logged, RunId, out))
       IN /\ committed' = tx.committed
          /\ conn' = tx.conn
          /\ commits' = commits + tx.commits
          /\ rollbacks' = rollbacks + tx.rollbacks
          /\ brands' = apply_limit(out, cfg.provider_limit)
    /\ disc' = "ok"
    /\ pc' = "loop"
    /\ idx' = 1
    /\ UNCHANGED <<cfg, next_url, seen_urls, page_num, product_ids, todo,
                   now, requests, results>>
    /\ UNCHANGED stop
    /\ UNCHANGED <<resources, last_fetch>>
    /\ UNCHANGED <<fpvars, drvars, htvars, upvars, gtvars, qavars, clvars, rcvars>>

(* for idx, b in enumerate(brands): with transaction(conn): the start of
   _fetch_products_for_brand.  A brand without base URI is skipped: the
   function returns (0, set()) and so does _fetch_product_details. *)
BeginProvider ==
    /\ pc = "loop"
    /\ idx <= Len(brands)
    /\ IF brands[idx].base
       THEN /\ pc' = "pages"
            /\ next_url' = ProductsUrl
            /\ page_num' = 1
            /\ stop' = "none"
       ELSE /\ pc' = "details"
            /\ next_url' = ""
            /\ page_num' = 0
            /\ stop' = "skipped"
    /\ seen_urls' = {}
    /\ product_ids' = {}
    /\ todo' = <<>>
    /\ UNCHANGED <<committed, conn, cfg, disc, brands, idx, now, commits, rollbacks,
                   requests, results>>
    /\ UNCHANGED <<resources, last_fetch>>
    /\ UNCHANGED <<fpvars, drvars, htvars, upvars, gtvars, qavars, clvars, rcvars>>

(* the exception leaves run_ingest: there is no try around the unit *)
provider_failed_pc_propagates == "raised"

(* except Exception: logger.exception(...); continue *)
provider_failed_pc == "loop"

(* the unit of provider brands[idx] ends with an exception: the transaction
   is rolled back, the exception is caught and the loop goes on *)
ProviderRaised(db, cause, phase) ==
    LET tx == transaction(TRUE, committed, db)
    IN /\ committed' = tx.committed
       /\ conn' = tx.conn
       /\ commits' = commits + tx.commits
       /\ rollbacks' = rollbacks + tx.rollbacks
       /\ results' = Append(results,
              [pid |-> brands[idx].id, outcome |-> "raised", cause |-> cause, phase |-> phase,
               stop |-> IF phase = "pages" THEN "raised" ELSE stop,
               page |-> page_num, wrote |-> Uncommitted(committed, db)])
       /\ idx' = idx + 1
       /\ pc' = provider_failed_pc

(* mutant: the details are fetched whatever the configuration says *)
details_todo_ungated(c, ids) == SortedIds(ids)

(* if cfg.fetch_product_details: _fetch_product_details(..., product_ids), which
   returns at once for an empty set and else walks sorted(product_ids) *)
details_todo(c, ids) ==
    IF c.fetch_product_details THEN SortedIds(ids) ELSE <<>>

(* one iteration of the while loop of _fetch_products_for_brand *)
PageStep ==
    /\ pc = "pages"
    /\ \E resp \in PageResponses, t \in ClockReadings :
          LET r == page_iteration(conn, brands[idx].id, next_url, seen_urls, page_num,
                                  product_ids, cfg, resp, t)
          IN /\ now' = IF r.requested THEN t ELSE now
             /\ last_fetch' = IF r.requested THEN resp.kind ELSE last_fetch
             /\ requests' = IF r.requested
                             THEN Append(requests, <<brands[idx].id, EpProducts, next_url>>)
                             ELSE requests
             /\ seen_urls' = r.seen_urls
             /\ stop' = r.stop
             /\ IF r.raised
                THEN /\ ProviderRaised(r.db, r.cause, "pages")
                     /\ UNCHANGED <<next_url, page_num, product_ids, todo>>
                ELSE /\ conn' = r.db
                     /\ next_url' = r.next_url
                     /\ page_num' = r.page_num
                     /\ product_ids' = r.product_ids
                     /\ pc' = IF r.exit THEN "details" ELSE "pages"
                     /\ todo' = IF r.exit THEN details_todo(cfg, r.product_ids) ELSE <<>>
                     /\ UNCHANGED <<committed, commits, rollbacks, results, idx>>
    /\ UNCHANGED <<cfg, disc, brands>>
    /\ UNCHANGED resources
    /\ UNCHANGED <<fpvars, drvars, htvars, upvars, gtvars, qavars, clvars, rcvars>>

(* one iteration of the for loop of _fetch_product_details *)
DetailStep ==
    /\ pc = "details"
    /\ todo # <<>>
    /\ \E resp \in DetailResponses, t \in ClockReadings :
          LET r == detail_iteration(conn, brands[idx].id, Head(todo), resp, t)
          IN /\ now' = t
             /\ last_fetch' = resp.kind
             /\ requests' = Append(requests, <<brands[idx].id, EpDetail, Head(todo)>>)
             /\ IF r.raised
                THEN /\ ProviderRaised(r.db, r.cause, "details")
                     /\ UNCHANGED todo
                ELSE /\ conn' = r.db
                     /\ todo' = Tail(todo)
                     /\ UNCHANGED <<committed, commits, rollbacks, results, idx, pc>>
    /\ UNCHANGED <<cfg, disc, brands, next_url, seen_urls, page_num, product_ids>>
    /\ UNCHANGED stop
    /\ UNCHANGED resources
    /\ UNCHANGED <<fpvars, drvars, htvars, upvars, gtvars, qavars, clvars, rcvars>>

(* the with block of the provider ends without exception: conn.commit() *)
CommitProvider ==
    /\ pc = "details"
    /\ todo = <<>>
    /\ LET tx == transaction(FALSE, committed, conn)
       IN /\ committed' = tx.committed
          /\ conn' = tx.conn
          /\ commits' = commits + tx.commits
          /\ rollbacks' = rollbacks + tx.rollbacks
    /\ results' = Append(results,
           [pid |-> brands[idx].id, outcome |-> "committed", cause |-> "none",
            phase |-> "none", stop |-> stop,
            page |-> page_num, wrote |-> Uncommitted(committed, conn)])
    /\ idx' = idx + 1
    /\ pc' = "loop"
    /\ UNCHANGED <<cfg, disc, brands, next_url, seen_urls, page_num, product_ids, todo,
                   now, requests>>
    /\ UNCHANGED stop
    /\ UNCHANGED <<resources, last_fetch>>
    /\ UNCHANGED <<fpvars, drvars, htvars, upvars, gtvars, qavars, clvars, rcvars>>

(* the for loop is exhausted: run_ingest logs "Ingest complete" and returns *)
Finish ==
    /\ pc = "loop"
    /\ idx > Len(brands)
    /\ pc' = "done"
    /\ UNCHANGED <<committed, conn, cfg, disc, brands, idx, next_url, seen_urls, page_num, stop,
                   product_ids, todo, now, commits, rollbacks, requests, results>>
    /\ resources' = closing_exit(resources)
    /\ UNCHANGED last_fetch
    /\ UNCHANGED <<fpvars, drvars, htvars, upvars, gtvars, qavars, clvars, rcvars>>

Next ==
    \/ InsertRun
    \/ InsertRunFails
    \/ \E kind \in {"transport", "status"} : DiscoverFail(kind)
    \/ \E data \in RegistryBodies : DiscoverOk(data)
    \/ BeginProvider
    \/ PageStep
    \/ DetailStep
    \/ CommitProvider
    \/ Finish

Spec == Init /\ [][Next]_vars

(***************************************************************************)
(* SpecHttp: http_client.py get_with_version_fallback                      *)
(***************************************************************************)
Versions == 1..MaxVersion

ChZero == 48
ChNine == 57

(* the value of the x-v response header: None when absent, else its text *)
Header(str) == [str |-> str]

HeaderValues == {None, Header(<<>>), Header(<<51>>), Header(<<49, 50>>), Header(<<51, 120>>)}

Statuses == {200, 406, 500}

HttpResponse(status, xv) == [status |-> status, xv |-> xv]

(* int(str) succeeds on a non-empty string of decimal digits (the generated
   headers have no sign, blank or underscore) and raises ValueError otherwise *)
IsDecimal(str) == str # <<>> /\ \A i \in DOMAIN str : str[i] >= ChZero /\ str[i] <= ChNine

RECURSIVE int_of(_)
int_of(str) ==
    IF str = <<>> THEN 0
    ELSE int_of(SubSeq(str, 1, Len(str) - 1)) * 10 + (str[Len(str)] - ChZero)

(* versions = [preferred_xv] + [v for v in fallback_versions if v != preferred_xv] *)
versions_of(preferred, fallback) ==
    <<preferred>> \o SelectSeq(fallback, LAMBDA v : v # preferred)

(* only status 200 counts as accepted: a server error goes on to the fallbacks *)
version_accepted_only_200(resp) == resp.status = 200

(* if resp.status_code != 406 *)
version_accepted(resp) == resp.status # 406

(* the x-v header is ignored *)
responded_version_sent_only(resp, xv) == xv

(* responded = resp.headers.get("x-v"); int(responded) if responded else xv;
   except ValueError: xv *)
responded_version(resp, xv) ==
    IF resp.xv = None THEN xv
    ELSE IF resp.xv.str = <<>> THEN xv
    ELSE IF IsDecimal(resp.xv.str) THEN int_of(resp.xv.str)
    ELSE xv

Returned(resp, xv) == [kind |-> "return", resp |-> resp, xv |-> xv]

(* raises as soon as any attempt raised, whatever response was seen *)
after_loop_raises_on_any_exception(last_resp, last_exc, preferred) ==
    IF last_exc THEN [kind |-> "raise"]
    ELSE IF last_resp = None THEN [kind |-> "assert"]
    ELSE Returned(last_resp, responded_version(last_resp, preferred))

(* the code after the for loop: raise HttpRequestFailed, or the assertion, or
   the last (406) response with the header's version or preferred_xv *)
after_loop(last_resp, last_exc, preferred) ==
    IF last_resp = None /\ last_exc THEN [kind |-> "raise"]
    ELSE IF last_resp = None THEN [kind |-> "assert"]
    ELSE Returned(last_resp, responded_version(last_resp, preferred))

InitHttp ==
    /\ FpIdle
    /\ DriftIdle
    /\ IngestIdle
    /\ OthersIdle
    /\ ht_pc = "loop"
    /\ ht_preferred \in Versions
    /\ ht_fallback \in SeqsUpTo(Versions, MaxFallbacks)
    /\ ht_i = 1
    /\ ht_last_resp = None
    /\ ht_last_exc = FALSE
    /\ ht_sent = <<>>
    /\ ht_ret = None

(* session.get raises requests.RequestException: last_exc = e; continue *)
HttpAttemptRaises ==
    /\ ht_pc = "loop"
    /\ ht_i <= Len(versions_of(ht_preferred, ht_fallback))
    /\ ht_last_exc' = TRUE
    /\ ht_sent' = Append(ht_sent,
           [xv |-> versions_of(ht_preferred, ht_fallback)[ht_i], status |-> 0])
    /\ ht_i' = ht_i + 1
    /\ UNCHANGED <<ht_pc, ht_preferred, ht_fallback, ht_last_resp, ht_ret>>
    /\ UNCHANGED <<fpvars, drvars, invars, upvars, gtvars, qavars, clvars, rcvars>>

(* session.get returns a response: it is returned unless its status is 406 *)
HttpAttemptResponds ==
    /\ ht_pc = "loop"
    /\ ht_i <= Len(versions_of(ht_preferred, ht_fallback))
    /\ \E status \in Statuses, h \in HeaderValues :
          LET xv == versions_of(ht_preferred, ht_fallback)[ht_i]
              resp == HttpResponse(status, h)
          IN /\ ht_last_resp' = resp
             /\ ht_sent' = Append(ht_sent, [xv |-> xv, status |-> status])
             /\ IF version_accepted(resp)
                THEN /\ ht_ret' = Returned(resp, responded_version(resp, xv))
                     /\ ht_pc' = "returned"
                     /\ ht_i' = ht_i
                ELSE /\ ht_ret' = ht_ret
                     /\ ht_pc' = ht_pc
                     /\ ht_i' = ht_i + 1
    /\ UNCHANGED <<ht_preferred, ht_fallback, ht_last_exc>>
    /\ UNCHANGED <<fpvars, drvars, invars, upvars, gtvars, qavars, clvars, rcvars>>

(* the versions are exhausted *)
HttpAfterLoop ==
    /\ ht_pc = "loop"
    /\ ht_i > Len(versions_of(ht_preferred, ht_fallback))
    /\ ht_ret' = after_loop(ht_last_resp, ht_last_exc, ht_preferred)
    /\ ht_pc' = IF ht_ret'.kind = "return" THEN "returned" ELSE "raised"
    /\ UNCHANGED <<ht_preferred, ht_fallback, ht_i, ht_last_resp, ht_last_exc, ht_sent>>
    /\ UNCHANGED <<fpvars, drvars, invars, upvars, gtvars, qavars, clvars, rcvars>>

NextHttp ==
    \/ HttpAttemptRaises
    \/ HttpAttemptResponds
    \/ HttpAfterLoop

SpecHttp == InitHttp /\ [][NextHttp]_vars

(***************************************************************************)
(* SpecUpsert: _log_api_call, _insert_products_raw and                     *)
(* _insert_product_detail_raw under any sequence of writes.  The rows of   *)
(* the model carry http_status, error and payload; http_status stands for  *)
(* the other columns of the SET lists too (responded_xv, fetched_at, etag, *)
(* payload_hash), which the statements treat alike.                        *)
(***************************************************************************)
UpsertProvider == "p1"
UpsertUrls == {"u1", "u2"}
UpsertPages == {1, 2}
UpsertProducts == {"x", "y"}
(* what a call writes: an answered request, or a failed one *)
UpsertCallValues == {[http_status |-> 200, error |-> None],
                     [http_status |-> 500, error |-> ErrHttp]}
UpsertRawValues == {[http_status |-> 200, payload |-> ShapeAB],
                    [http_status |-> 500, payload |-> None]}

InitUpsert ==
    /\ FpIdle
    /\ DriftIdle
    /\ IngestIdle
    /\ HttpIdle
    /\ GateIdle
    /\ QaIdle
    /\ ClipIdle
    /\ RaceIdle
    /\ up_db = EmptyDb
    /\ up_hist = <<>>

UpsertApiCall(endpoint, url, v) ==
    /\ Len(up_hist) < MaxWrites
    /\ up_db' = log_api_call(up_db, RunId, UpsertProvider, endpoint, url, v.http_status, v.error)
    /\ up_hist' = Append(up_hist, [table |-> "api_call_log", endpoint |-> endpoint, url |-> url,
                                   http_status |-> v.http_status, error |-> v.error])
    /\ UNCHANGED <<fpvars, drvars, invars, htvars, gtvars, qavars, clvars, rcvars>>

UpsertPage(page, url, v) ==
    /\ Len(up_hist) < MaxWrites
    /\ up_db' = insert_products_raw(up_db, RunId, UpsertProvider, EpProducts, url, page,
                                    v.http_status, v.payload)
    /\ up_hist' = Append(up_hist, [table |-> "products_raw", page_num |-> page, url |-> url,
                                   http_status |-> v.http_status, payload |-> v.payload])
    /\ UNCHANGED <<fpvars, drvars, invars, htvars, gtvars, qavars, clvars, rcvars>>

UpsertDetail(product_id, url, v) ==
    /\ Len(up_hist) < MaxWrites
    /\ up_db' = insert_product_detail_raw(up_db, RunId, UpsertProvider, product_id, url,
                                          v.http_status, v.payload)
    /\ up_hist' = Append(up_hist, [table |-> "product_detail_raw", product_id |-> product_id,
                                   url |-> url, http_status |-> v.http_status,
                                   payload |-> v.payload])
    /\ UNCHANGED <<fpvars, drvars, invars, htvars, gtvars, qavars, clvars, rcvars>>

NextUpsert ==
    \/ \E endpoint \in Endpoints, url \in UpsertUrls, v \in UpsertCallValues :
          UpsertApiCall(endpoint, url, v)
    \/ \E page \in UpsertPages, url \in UpsertUrls, v \in UpsertRawValues :
          UpsertPage(page, url, v)
    \/ \E product_id \in UpsertProducts, url \in UpsertUrls, v \in UpsertRawValues :
          UpsertDetail(product_id, url, v)

SpecUpsert == InitUpsert /\ [][NextUpsert]_vars

(***************************************************************************)
(* qa.py: gate results                                                     *)
(***************************************************************************)
(* a number where None is possible too *)
Num(n) == [num |-> n]

(* GateResult(name, passed, actual_value, threshold_value, details) *)
GateResult(name, passed, actual_value, threshold_value, details) ==
    [name |-> name, passed |-> passed, actual_value |-> actual_value,
     threshold_value |-> threshold_value, details |-> details]

(* f"{actual_value}{unit} {op} {threshold_value}{unit}" *)
Compared(actual, op, threshold, unit) ==
    [kind |-> "compared", actual |-> actual, op |-> op, threshold |-> threshold, unit |-> unit]

(* f"missing metric value; expected {op} {threshold_value}{unit}" *)
MissingMetric(op, threshold, unit) ==
    [kind |-> "missing metric value", expected |-> op, threshold |-> threshold, unit |-> unit]

(* mutant: the threshold itself does not pass *)
gate_min_strict(name, actual_value, threshold_value, unit) ==
    IF actual_value = None
    THEN GateResult(name, FALSE, None, Num(threshold_value),
                    MissingMetric(">=", threshold_value, unit))
    ELSE LET passed == actual_value.num > threshold_value
         IN GateResult(name, passed, actual_value, Num(threshold_value),
                       Compared(actual_value.num, IF passed THEN ">=" ELSE "<",
                                threshold_value, unit))

(* _gate_min *)
gate_min(name, actual_value, threshold_value, unit) ==
    IF actual_value = None
    THEN GateResult(name, FALSE, None, Num(threshold_value),
                    MissingMetric(">=", threshold_value, unit))
    ELSE LET passed == actual_value.num >= threshold_value
         IN GateResult(name, passed, actual_value, Num(threshold_value),
                       Compared(actual_value.num, IF passed THEN ">=" ELSE "<",
                                threshold_value, unit))

(* _gate_max *)
gate_max(name, actual_value, threshold_value, unit) ==
    IF actual_value = None
    THEN GateResult(name, FALSE, None, Num(threshold_value),
                    MissingMetric("<=", threshold_value, unit))
    ELSE LET passed == actual_value.num <= threshold_value
         IN GateResult(name, passed, actual_value, Num(threshold_value),
                       Compared(actual_value.num, IF passed THEN "<=" ELSE ">",
                                threshold_value, unit))

(***************************************************************************)
(* SpecGate: _gate_min and _gate_max on every actual value and threshold   *)
(***************************************************************************)
GateUnits == {"", "h"}

GateInputs ==
    [kind : {"min", "max"},
     actual : {None} \cup {Num(n) : n \in 0..MaxMetric},
     threshold : 0..MaxMetric,
     unit : GateUnits]

InitGate ==
    /\ FpIdle
    /\ DriftIdle
    /\ IngestIdle
    /\ HttpIdle
    /\ UpsertIdle
    /\ QaIdle
    /\ ClipIdle
    /\ RaceIdle
    /\ gt_pc = "call"
    /\ gt_in \in GateInputs
    /\ gt_out = None

GateMinCall ==
    /\ gt_pc = "call"
    /\ gt_in.kind = "min"
    /\ gt_out' = gate_min("x", gt_in.actual, gt_in.threshold, gt_in.unit)
    /\ gt_pc' = "done"
    /\ UNCHANGED gt_in
    /\ UNCHANGED <<fpvars, drvars, invars, htvars, upvars, qavars, clvars, rcvars>>

GateMaxCall ==
    /\ gt_pc = "call"
    /\ gt_in.kind = "max"
    /\ gt_out' = gate_max("x", gt_in.actual, gt_in.threshold, gt_in.unit)
    /\ gt_pc' = "done"
    /\ UNCHANGED gt_in
    /\ UNCHANGED <<fpvars, drvars, invars, htvars, upvars, qavars, clvars, rcvars>>

NextGate ==
    \/ GateMinCall
    \/ GateMaxCall

SpecGate == InitGate /\ [][NextGate]_vars

(***************************************************************************)
(* qa.py: queries on the connection                                        *)
(***************************************************************************)
(* what a query answers: a number, NULL or no row, or an exception *)
QValue(n) == [raises |-> FALSE, value |-> Num(n)]
QNull == [raises |-> FALSE, value |-> None]
QRaises(e) == [raises |-> TRUE, error |-> e]

ErrTimeout == [text |-> "canceling statement due to statement timeout"]
ErrAborted == [text |-> "current transaction is aborted"]

(* cursor.execute on a connection without autocommit: once a statement has
   failed, every statement fails until the transaction is rolled back *)
execute_on(tx, answer) ==
    IF tx = "aborted" THEN QRaises(ErrAborted) ELSE answer

(* _fetch_number: None for no row or NULL, else the number *)
fetch_number(tx, answer) == execute_on(tx, answer)

(* mutant: the failed transaction is left open *)
rollback_skipped(tx) == tx

(* conn.rollback() *)
rollback(tx) == "ok"

(* the state of the transaction after a statement with this outcome *)
tx_after(tx, outcome) == IF outcome.raises THEN "aborted" ELSE tx

(* f"query failed: {e}" *)
QueryFailed(e) == [kind |-> "query failed", error |-> e]

(* _gate_min_from_query and _gate_max_from_query: the gate, the state of the
   transaction and the number of rollbacks made *)
gate_from_query(kind, name, tx, answer, threshold_value, unit) ==
    LET f == fetch_number(tx, answer)
    IN IF f.raises
       THEN [result |-> GateResult(name, FALSE, None, Num(threshold_value),
                                   QueryFailed(f.error)),
             tx |-> rollback(tx_after(tx, f)), rollbacks |-> 1]
       ELSE [result |-> IF kind = "min"
                        THEN gate_min(name, f.value, threshold_value, unit)
                        ELSE gate_max(name, f.value, threshold_value, unit),
             tx |-> tx, rollbacks |-> 0]

gate_min_from_query(name, tx, answer, threshold_value, unit) ==
    gate_from_query("min", name, tx, answer, threshold_value, unit)

gate_max_from_query(name, tx, answer, threshold_value, unit) ==
    gate_from_query("max", name, tx, answer, threshold_value, unit)

(* a relation name where None is possible too *)
Rel(name) == [name |-> name]

(* mutant: the last existing candidate wins *)
RECURSIVE resolve_relation_last(_, _, _, _)
resolve_relation_last(tx, candidates, lookup, k) ==
    IF k > Len(candidates) THEN [raises |-> FALSE, rel |-> None]
    ELSE IF tx = "aborted" \/ lookup[k] = "raises" THEN QRaises(ErrTimeout)
    ELSE LET rest == resolve_relation_last(tx, candidates, lookup, k + 1)
         IN IF rest.raises THEN rest
            ELSE IF rest.rel # None THEN rest
            ELSE IF lookup[k] = "exists" THEN [raises |-> FALSE, rel |-> Rel(candidates[k])]
            ELSE rest

(* _resolve_relation from candidate k on: SELECT to_regclass(candidate) for
   one candidate after the other, the first that exists is returned; a lookup
   that raises leaves the function *)
RECURSIVE resolve_relation(_, _, _, _)
resolve_relation(tx, candidates, lookup, k) ==
    IF k > Len(candidates) THEN [raises |-> FALSE, rel |-> None]
    ELSE LET r == execute_on(tx, IF lookup[k] = "raises" THEN QRaises(ErrTimeout)
                                 ELSE [raises |-> FALSE, exists |-> lookup[k] = "exists"])
         IN IF r.raises THEN r
            ELSE IF r.exists THEN [raises |-> FALSE, rel |-> Rel(candidates[k])]
            ELSE resolve_relation(tx, candidates, lookup, k + 1)

(* "missing relation: expected <first> or <second>" *)
MissingRelation(candidates) == [kind |-> "missing relation", expected |-> candidates]

missing_relation_gate(name, threshold_value, candidates) ==
    GateResult(name, FALSE, None, Num(threshold_value), MissingRelation(candidates))

(* any(gr.name == "schema_drift_events" for gr in gate_results) *)
has_drift_result(gate_results) ==
    \E i \in DOMAIN gate_results : gate_results[i].name = "schema_drift_events"

(* the try/except around the count query of the drift block: drift_events,
   and the failed result appended by the except branch *)
drift_count(gate_results, tx, answer, fail_on_schema_drift) ==
    LET f == fetch_number(tx, answer)
    IN IF f.raises
       THEN [drift_events |-> None,
             results |-> Append(gate_results,
                                GateResult("schema_drift_events", FALSE, None,
                                           IF fail_on_schema_drift THEN Num(0) ELSE None,
                                           QueryFailed(f.error))),
             tx |-> rollback(tx_after(tx, f)), rollbacks |-> 1]
       ELSE [drift_events |-> f.value, results |-> gate_results, tx |-> tx, rollbacks |-> 0]

(* GateResult("schema_drift_events", passed=True, ...) of the disabled gate *)
drift_observation(drift_events) ==
    GateResult("schema_drift_events", TRUE, drift_events, None,
               [kind |-> "observed", actual |-> drift_events])

(* mutant: the drift count is gated against 0 whatever the configuration says *)
drift_gate_always_gated(gate_results, tx, answer, fail_on_schema_drift) ==
    LET c == drift_count(gate_results, tx, answer, fail_on_schema_drift)
    IN [results |-> IF ~has_drift_result(c.results)
                    THEN Append(c.results, gate_max("schema_drift_events", c.drift_events, 0, ""))
                    ELSE c.results,
        tx |-> c.tx, rollbacks |-> c.rollbacks]

(* mutant: the gate or the observation is appended without looking for a
   result of that name *)
drift_gate_unguarded(gate_results, tx, answer, fail_on_schema_drift) ==
    LET c == drift_count(gate_results, tx, answer, fail_on_schema_drift)
    IN [results |-> IF fail_on_schema_drift
                    THEN Append(c.results, gate_max("schema_drift_events", c.drift_events, 0, ""))
                    ELSE Append(c.results, drift_observation(c.drift_events)),
        tx |-> c.tx, rollbacks |-> c.rollbacks]

(* the schema_drift_events block of run_qa: the count query and its except
   branch, then the gate (if no result of that name exists and the gate is
   enabled) or the observation (elif no result of that name exists) *)
drift_gate(gate_results, tx, answer, fail_on_schema_drift) ==
    LET c == drift_count(gate_results, tx, answer, fail_on_schema_drift)
    IN [results |-> IF ~has_drift_result(c.results) /\ fail_on_schema_drift
                    THEN Append(c.results, gate_max("schema_drift_events", c.drift_events, 0, ""))
                    ELSE IF ~has_drift_result(c.results)
                    THEN Append(c.results, drift_observation(c.drift_events))
                    ELSE c.results,
        tx |-> c.tx, rollbacks |-> c.rollbacks]

(* what shlex.split and subprocess.run do with the configured command:
   split "raises" is a command with an unclosed quotation, "empty" one
   without words; start is how the process started, returncode its exit status *)
DbtCommand(split, start, returncode) ==
    [split |-> split, start |-> start, returncode |-> returncode]

DbtCommands ==
    {DbtCommand("raises", "none", 0),
     DbtCommand("empty", "none", 0),
     DbtCommand("argv", "not found", 0),
     DbtCommand("argv", "error", 0),
     DbtCommand("argv", "ok", 0),
     DbtCommand("argv", "ok", 1)}

ErrQuotation == [text |-> "No closing quotation"]

(* the command of an evaluation that does not run the tests *)
DbtNotLookedAt == DbtCommand("none", "none", 0)

(* _run_dbt_tests: shlex.split stands before the try, subprocess.run in it;
   executed says whether the process was started *)
run_dbt_tests(command) ==
    IF command.split = "raises"
    THEN [raised |-> TRUE, executed |-> FALSE, passed |-> FALSE, details |-> "none"]
    ELSE IF command.split = "empty"
    THEN [raised |-> FALSE, executed |-> FALSE, passed |-> FALSE,
          details |-> "dbt test command is empty"]
    ELSE IF command.start = "not found"
    THEN [raised |-> FALSE, executed |-> FALSE, passed |-> FALSE,
          details |-> "dbt test command executable not found"]
    ELSE IF command.start = "error"
    THEN [raised |-> FALSE, executed |-> FALSE, passed |-> FALSE,
          details |-> "dbt test command failed to run"]
    ELSE [raised |-> FALSE, executed |-> TRUE, passed |-> command.returncode = 0,
          details |-> IF command.returncode = 0 THEN "exit_code=0" ELSE "exit_code=1"]

(* the dbt_tests gate *)
dbt_gate(dbt, should_run_dbt_tests) ==
    GateResult("dbt_tests", dbt.passed, Num(IF dbt.passed THEN 1 ELSE 0), Num(1),
               [kind |-> "dbt", text |-> IF should_run_dbt_tests THEN dbt.details ELSE "skipped"])

(* mutant: run_qa reports success whatever the gates say *)
exit_code_always_zero(gate_results) == 0

(* failed = [gr for gr in gate_results if not gr.passed]; return 1 if failed else 0 *)
exit_code(gate_results) ==
    IF \E i \in DOMAIN gate_results : ~gate_results[i].passed THEN 1 ELSE 0

(* status = "PASS" if not failed else "FAIL" *)
summary_status(gate_results) ==
    IF \E i \in DOMAIN gate_results : ~gate_results[i].passed THEN "FAIL" ELSE "PASS"

(***************************************************************************)
(* SpecQa: run_qa                                                          *)
(***************************************************************************)
(* the thresholds of Config.from_env() without environment, and the two
   switches either way *)
QaConfigs ==
    {[min_providers_ok |-> 1, min_products |-> 1, min_rate_changes |-> 1,
      max_freshness_hours |-> 36, fail_on_schema_drift |-> f, run_dbt_tests |-> d] :
        f \in BOOLEAN, d \in BOOLEAN}

(* the three gates that count the rows of a relation dbt builds *)
RelGates ==
    << [name |-> "providers_ok", threshold |-> "min_providers_ok",
        candidates |-> <<"gold.mart_provider_coverage", "public_gold.mart_provider_coverage">>],
       [name |-> "dim_products_rows", threshold |-> "min_products",
        candidates |-> <<"silver.dim_products", "public_silver.dim_products">>],
       [name |-> "rate_changes_rows", threshold |-> "min_rate_changes",
        candidates |-> <<"gold.mart_rate_changes", "public_gold.mart_rate_changes">>] >>

(* the order of the gates in run_qa *)
QaOrder == <<"providers_ok", "dim_products_rows", "rate_changes_rows",
             "products_freshness_hours", "schema_drift_events", "finish">>

QaAfter(step) == QaOrder[(CHOOSE i \in DOMAIN QaOrder : QaOrder[i] = step) + 1]

(* what the catalog says of the two candidates of a gate *)
LookupAnswers == [1..2 -> {"exists", "missing", "raises"}]
(* what the data answer to a row count *)
CountAnswers == {QValue(0), QValue(1), QValue(2), QRaises(ErrTimeout)}
(* what the data answer to the age of the newest raw page, in hours *)
FreshnessAnswers == {QNull, QValue(35), QValue(36), QValue(37), QRaises(ErrTimeout)}

InitQa ==
    /\ FpIdle
    /\ DriftIdle
    /\ IngestIdle
    /\ HttpIdle
    /\ UpsertIdle
    /\ GateIdle
    /\ ClipIdle
    /\ RaceIdle
    /\ qa_pc = "start"
    /\ qa_cfg \in QaConfigs
    /\ qa_dbt = None
    /\ qa_tx = "ok"
    /\ qa_results = <<>>
    /\ qa_lookup = None
    /\ qa_rel = None
    /\ qa_answer = None
    /\ qa_nqueries = 0
    /\ qa_rollbacks = 0
    /\ qa_table = {}
    /\ qa_summary = None
    /\ qa_ret = None

(* dbt_passed = True; dbt_details = "dbt test skipped"; if should_run_dbt_tests:
   dbt_passed, dbt_details = _run_dbt_tests(command).  An exception of
   _run_dbt_tests leaves run_qa: no connection is open yet. *)
QaStart ==
    /\ qa_pc = "start"
    /\ IF qa_cfg.run_dbt_tests
       THEN \E command \in DbtCommands :
               LET r == run_dbt_tests(command)
               IN /\ qa_dbt' = [passed |-> r.passed, details |-> r.details,
                                executed |-> r.executed, command |-> command]
                  /\ qa_pc' = IF r.raised THEN "dbt raised" ELSE QaOrder[1]
                  /\ qa_ret' = IF r.raised THEN [raised |-> ErrQuotation] ELSE qa_ret
       ELSE /\ qa_dbt' = [passed |-> TRUE, details |-> "dbt test skipped",
                          executed |-> FALSE, command |-> DbtNotLookedAt]
            /\ qa_pc' = QaOrder[1]
            /\ qa_ret' = qa_ret
    /\ UNCHANGED <<qa_cfg, qa_tx, qa_results, qa_lookup, qa_rel, qa_answer, qa_nqueries,
                   qa_rollbacks, qa_table, qa_summary>>
    /\ UNCHANGED <<fpvars, drvars, invars, htvars, upvars, gtvars, clvars, rcvars>>

(* rel = _resolve_relation(conn, candidates) returns; if rel: the gate of the
   metric query, else: the missing-relation gate *)
QaRelGate(g) ==
    /\ qa_pc = g.name
    /\ \E lookup \in LookupAnswers, answer \in CountAnswers :
          LET res == resolve_relation(qa_tx, g.candidates, lookup, 1)
              q == gate_min_from_query(g.name, qa_tx, answer, qa_cfg[g.threshold], "")
          IN /\ ~res.raises
             /\ qa_lookup' = lookup
             /\ qa_rel' = res.rel
             /\ IF res.rel # None
                THEN /\ qa_results' = Append(qa_results, q.result)
                     /\ qa_tx' = q.tx
                     /\ qa_rollbacks' = qa_rollbacks + q.rollbacks
                     /\ qa_nqueries' = qa_nqueries + 1
                     /\ qa_answer' = answer
                ELSE /\ qa_results' = Append(qa_results,
                            missing_relation_gate(g.name, qa_cfg[g.threshold], g.candidates))
                     /\ UNCHANGED <<qa_tx, qa_rollbacks, qa_nqueries, qa_answer>>
    /\ qa_pc' = QaAfter(g.name)
    /\ UNCHANGED <<qa_cfg, qa_dbt, qa_table, qa_summary, qa_ret>>
    /\ UNCHANGED <<fpvars, drvars, invars, htvars, upvars, gtvars, clvars, rcvars>>

(* the exception of _relation_exists leaves _resolve_relation and, with no
   try around the call, run_qa *)
lookup_failed_pc(step) == "raised"

(* _resolve_relation raises: a to_regclass query failed *)
QaLookupRaises(g) ==
    /\ qa_pc = g.name
    /\ \E lookup \in LookupAnswers :
          LET res == resolve_relation(qa_tx, g.candidates, lookup, 1)
          IN /\ res.raises
             /\ qa_lookup' = lookup
             /\ qa_tx' = tx_after(qa_tx, res)
             /\ qa_ret' = [raised |-> res.error]
    /\ qa_pc' = lookup_failed_pc(g.name)
    /\ UNCHANGED <<qa_cfg, qa_dbt, qa_results, qa_rel, qa_answer, qa_nqueries, qa_rollbacks,
                   qa_table, qa_summary>>
    /\ UNCHANGED <<fpvars, drvars, invars, htvars, upvars, gtvars, clvars, rcvars>>

(* the products_freshness_hours gate *)
QaFreshness ==
    /\ qa_pc = "products_freshness_hours"
    /\ \E answer \in FreshnessAnswers :
          LET q == gate_max_from_query("products_freshness_hours", qa_tx, answer,
                                       qa_cfg.max_freshness_hours, "h")
          IN /\ qa_results' = Append(qa_results, q.result)
             /\ qa_tx' = q.tx
             /\ qa_rollbacks' = qa_rollbacks + q.rollbacks
             /\ qa_answer' = answer
    /\ qa_nqueries' = qa_nqueries + 1
    /\ qa_pc' = QaAfter("products_freshness_hours")
    /\ UNCHANGED <<qa_cfg, qa_dbt, qa_lookup, qa_rel, qa_table, qa_summary, qa_ret>>
    /\ UNCHANGED <<fpvars, drvars, invars, htvars, upvars, gtvars, clvars, rcvars>>

(* the schema_drift_events gate *)
QaDrift ==
    /\ qa_pc = "schema_drift_events"
    /\ \E answer \in CountAnswers :
          LET q == drift_gate(qa_results, qa_tx, answer, qa_cfg.fail_on_schema_drift)
          IN /\ qa_results' = q.results
             /\ qa_tx' = q.tx
             /\ qa_rollbacks' = qa_rollbacks + q.rollbacks
             /\ qa_answer' = answer
    /\ qa_nqueries' = qa_nqueries + 1
    /\ qa_pc' = QaAfter("schema_drift_events")
    /\ UNCHANGED <<qa_cfg, qa_dbt, qa_lookup, qa_rel, qa_table, qa_summary, qa_ret>>
    /\ UNCHANGED <<fpvars, drvars, invars, htvars, upvars, gtvars, clvars, rcvars>>

(* str(uuid.uuid4()): the identifiers an evaluation can draw *)
QaRunIds == {"qa-1", "qa-2"}

(* the dbt gate is appended, the results are inserted and committed, the
   summary is written and the exit code returned.  qa_run_id is drawn at the
   start of run_qa and first used here, in the rows inserted. *)
QaFinish ==
    /\ qa_pc = "finish"
    /\ qa_tx = "ok"
    /\ LET all == Append(qa_results, dbt_gate(qa_dbt, qa_cfg.run_dbt_tests))
       IN /\ qa_results' = all
          /\ \E qa_run_id \in QaRunIds :
                qa_table' = {[qa_run_id |-> qa_run_id,
                              gate_name |-> all[i].name, passed |-> all[i].passed,
                              actual_value |-> all[i].actual_value,
                              threshold_value |-> all[i].threshold_value,
                              details |-> all[i].details,
                              dbt_test_ran |-> qa_cfg.run_dbt_tests,
                              dbt_test_passed |-> qa_dbt.passed] : i \in DOMAIN all}
          /\ qa_summary' = [status |-> summary_status(all)]
          /\ qa_ret' = [code |-> exit_code(all)]
    /\ qa_pc' = "returned"
    /\ UNCHANGED <<qa_cfg, qa_dbt, qa_tx, qa_lookup, qa_rel, qa_answer, qa_nqueries,
                   qa_rollbacks>>
    /\ UNCHANGED <<fpvars, drvars, invars, htvars, upvars, gtvars, clvars, rcvars>>

NextQa ==
    \/ QaStart
    \/ \E i \in DOMAIN RelGates : QaRelGate(RelGates[i])
    \/ \E i \in DOMAIN RelGates : QaLookupRaises(RelGates[i])
    \/ QaFreshness
    \/ QaDrift
    \/ QaFinish

SpecQa == InitQa /\ [][NextQa]_vars

(***************************************************************************)
(* SpecClip: qa.py _clip_text on every string and every max_chars          *)
(***************************************************************************)
ClipChars == {"a", "b"}

(* the strings of at most MaxStrLen characters *)
ClipStrings == UNION {[1..n -> ClipChars] : n \in 0..MaxStrLen}

(* the values of max_chars: negative, zero, below the length of "..." and above *)
ClipArgs == (0 - 1)..MaxClipArg

Dots == <<".", ".", ".">>

(* s[:k] of Python: the first k characters for k >= 0, all but the last -k
   characters for k < 0 *)
slice_to(s, k) ==
    IF k >= 0
    THEN SubSeq(s, 1, Min(k, Len(s)))
    ELSE SubSeq(s, 1, IF Len(s) + k > 0 THEN Len(s) + k ELSE 0)

(* mutant: the three dots are added to the first max_chars characters *)
clip_text_dots_on_top(s, max_chars) ==
    IF Len(s) <= max_chars THEN s ELSE slice_to(s, max_chars) \o Dots

(* _clip_text *)
clip_text(s, max_chars) ==
    IF Len(s) <= max_chars THEN s ELSE slice_to(s, max_chars - 3) \o Dots

InitClip ==
    /\ FpIdle
    /\ DriftIdle
    /\ IngestIdle
    /\ HttpIdle
    /\ UpsertIdle
    /\ GateIdle
    /\ QaIdle
    /\ RaceIdle
    /\ cl_pc = "call"
    /\ cl_s \in ClipStrings
    /\ cl_max \in ClipArgs
    /\ cl_out = <<>>

ClipCall ==
    /\ cl_pc = "call"
    /\ cl_out' = clip_text(cl_s, cl_max)
    /\ cl_pc' = "done"
    /\ UNCHANGED <<cl_s, cl_max>>
    /\ UNCHANGED <<fpvars, drvars, invars, htvars, upvars, gtvars, qavars, rcvars>>

NextClip == ClipCall

SpecClip == InitClip /\ [][NextClip]_vars

(***************************************************************************)
(* SpecRace: two writers in record_and_detect_drift for one (provider,     *)
(* endpoint) on one database, each statement a step of its own             *)
(***************************************************************************)
Writers == {1, 2}
RaceProvider == "p1"
RaceEndpoint == EpProducts

(* what an earlier run left for the (provider, endpoint): nothing, or one
   fingerprint row older than every timestamp of this run *)
RacePriors ==
    {{}} \cup {{fingerprint_row(fingerprint_default[payload], RaceProvider, RaceEndpoint,
                                0, "run-0")} : payload \in DriftPayloads}

(* the latest observed_at handed out so far *)
RaceClock ==
    LET ts == {rc_in[w].observed_at : w \in Writers} \cup {1}
    IN CHOOSE t \in ts : \A u \in ts : u <= t

InitRace ==
    /\ FpIdle
    /\ IngestIdle
    /\ HttpIdle
    /\ UpsertIdle
    /\ GateIdle
    /\ QaIdle
    /\ ClipIdle
    /\ \E prior \in RacePriors : dr_db = [EmptyDb EXCEPT !.schema_fingerprint = prior]
    /\ dr_old = None
    /\ dr_result = "none"
    /\ rc_pc = [w \in Writers |-> "start"]
    /\ rc_in \in [Writers -> {[payload |-> payload, observed_at |-> 0] :
                                 payload \in DriftPayloads}]
    /\ rc_old = [w \in Writers |-> None]
    /\ rc_overlap = FALSE

(* observed_at is read from the clock, which does not go back; then the
   SELECT of the latest fingerprint hash: old_hash.  The read overlaps when
   the other writer is between its own SELECT and its last INSERT. *)
RaceRead(w, t) ==
    /\ rc_pc[w] = "start"
    /\ t >= RaceClock
    /\ rc_in' = [rc_in EXCEPT ![w].observed_at = t]
    /\ \E h \in select_previous_hash(dr_db, RaceProvider, RaceEndpoint) :
          rc_old' = [rc_old EXCEPT ![w] = h]
    /\ rc_overlap' = (rc_overlap \/ \E v \in Writers \ {w} : rc_pc[v] \in {"read", "inserted"})
    /\ rc_pc' = [rc_pc EXCEPT ![w] = "read"]
    /\ UNCHANGED <<fpvars, drvars, invars, htvars, upvars, gtvars, qavars, clvars>>

(* INSERT INTO bronze.schema_fingerprint; a conflict raises out of the function *)
RaceInsert(w) ==
    /\ rc_pc[w] = "read"
    /\ LET ins == insert_fingerprint(dr_db,
                      fingerprint_row(fingerprint_default[rc_in[w].payload], RaceProvider,
                                      RaceEndpoint, rc_in[w].observed_at, RunId))
       IN /\ dr_db' = ins.db
          /\ rc_pc' = [rc_pc EXCEPT ![w] = IF ins.raised THEN "raised" ELSE "inserted"]
    /\ UNCHANGED <<dr_old, dr_result, rc_in, rc_old, rc_overlap>>
    /\ UNCHANGED <<fpvars, invars, htvars, upvars, gtvars, qavars, clvars>>

(* if old_hash and old_hash != new_hash: INSERT INTO bronze.schema_drift_event *)
RaceEvent(w) ==
    /\ rc_pc[w] = "inserted"
    /\ LET fp == fingerprint_default[rc_in[w].payload]
           ev == IF rc_old[w] # None /\ rc_old[w] # fp.h
                 THEN insert_drift_event(dr_db,
                          drift_event_row(rc_old[w], fp, RaceProvider, RaceEndpoint,
                                          rc_in[w].observed_at, RunId))
                 ELSE Ok(dr_db)
       IN /\ dr_db' = ev.db
          /\ rc_pc' = [rc_pc EXCEPT ![w] = IF ev.raised THEN "raised" ELSE "done"]
    /\ UNCHANGED <<dr_old, dr_result, rc_in, rc_old, rc_overlap>>
    /\ UNCHANGED <<fpvars, invars, htvars, upvars, gtvars, qavars, clvars>>

NextRace ==
    \/ \E w \in Writers, t \in Times : RaceRead(w, t)
    \/ \E w \in Writers : RaceInsert(w)
    \/ \E w \in Writers : RaceEvent(w)

SpecRace == InitRace /\ [][NextRace]_vars

(***************************************************************************)
(* SpecWorkers: the writes of the units of two providers of one run,       *)
(* interleaved in any order on one database                                *)
(***************************************************************************)
WorkerProviders == {"p1", "p2"}
(* both workers meet the same URL, page number, product id and timestamp *)
WorkerUrl == "u1"
WorkerPage == 1
WorkerProduct == "x"
WorkerTime == 1

WorkerTables == {"api_call_log", "products_raw", "product_detail_raw",
                 "schema_fingerprint", "schema_drift_event"}

(* bootstrap.py: the PRIMARY KEY columns of table t, taken from row r *)
PrimaryKey(t, r) ==
    CASE t = "api_call_log" -> <<r.run_id, r.provider_id, r.endpoint, r.url>>
      [] t = "products_raw" -> <<r.run_id, r.provider_id, r.endpoint, r.page_num>>
      [] t = "product_detail_raw" -> <<r.run_id, r.provider_id, r.product_id>>
      [] t = "schema_fingerprint" -> <<r.provider_id, r.endpoint, r.observed_at>>
      [] t = "schema_drift_event" -> <<r.provider_id, r.endpoint, r.observed_at>>

InitWorkers ==
    /\ FpIdle
    /\ DriftIdle
    /\ IngestIdle
    /\ HttpIdle
    /\ GateIdle
    /\ QaIdle
    /\ ClipIdle
    /\ RaceIdle
    /\ up_db = EmptyDb
    /\ up_hist = <<>>

(* the statement of worker w on table t gave database db; it wrote, or tried
   to write, the row of primary key key *)
WorkerWrote(w, t, key, db, raised) ==
    /\ Len(up_hist) < MaxWrites
    /\ up_db' = db
    /\ up_hist' = Append(up_hist, [worker |-> w, table |-> t, key |-> key, raised |-> raised])
    /\ UNCHANGED <<fpvars, drvars, invars, htvars, gtvars, qavars, clvars, rcvars>>

(* _log_api_call *)
WorkerApiCall(w, v) ==
    WorkerWrote(w, "api_call_log", <<RunId, w, EpProducts, WorkerUrl>>,
                log_api_call(up_db, RunId, w, EpProducts, WorkerUrl, v.http_status, v.error),
                FALSE)

(* _insert_products_raw *)
WorkerRawPage(w, v) ==
    WorkerWrote(w, "products_raw", <<RunId, w, EpProducts, WorkerPage>>,
                insert_products_raw(up_db, RunId, w, EpProducts, WorkerUrl, WorkerPage,
                                    v.http_status, v.payload),
                FALSE)

(* _insert_product_detail_raw *)
WorkerRawDetail(w, v) ==
    WorkerWrote(w, "product_detail_raw", <<RunId, w, WorkerProduct>>,
                insert_product_detail_raw(up_db, RunId, w, WorkerProduct, WorkerUrl,
                                          v.http_status, v.payload),
                FALSE)

(* record_and_detect_drift: INSERT INTO bronze.schema_fingerprint *)
WorkerFingerprint(w, payload) ==
    LET ins == insert_fingerprint(up_db,
                   fingerprint_row(fingerprint_default[payload], w, EpProducts,
                                   WorkerTime, RunId))
    IN WorkerWrote(w, "schema_fingerprint", <<w, EpProducts, WorkerTime>>, ins.db, ins.raised)

(* record_and_detect_drift: INSERT INTO bronze.schema_drift_event *)
WorkerDriftEvent(w) ==
    LET ins == insert_drift_event(up_db,
                   drift_event_row(fingerprint_default[ShapeAB].h, fingerprint_default[ShapeList],
                                   w, EpProducts, WorkerTime, RunId))
    IN WorkerWrote(w, "schema_drift_event", <<w, EpProducts, WorkerTime>>, ins.db, ins.raised)

NextWorkers ==
    \/ \E w \in WorkerProviders, v \in UpsertCallValues : WorkerApiCall(w, v)
    \/ \E w \in WorkerProviders, v \in UpsertRawValues : WorkerRawPage(w, v)
    \/ \E w \in WorkerProviders, v \in UpsertRawValues : WorkerRawDetail(w, v)
    \/ \E w \in WorkerProviders, payload \in DriftPayloads : WorkerFingerprint(w, payload)
    \/ \E w \in WorkerProviders : WorkerDriftEvent(w)

SpecWorkers == InitWorkers /\ [][NextWorkers]_vars

(***************************************************************************)
(* Properties of run_ingest                                                *)
(***************************************************************************)
DiscoveryFailures == {"transport", "status"}

(* number of rows that carry provider_id pid, over the tables a provider
   unit writes *)
ProviderRowCount(db, pid) ==
    Cardinality({r \in db.api_call_log : r.provider_id = pid})
    + Cardinality({r \in db.products_raw : r.provider_id = pid})
    + Cardinality({r \in db.product_detail_raw : r.provider_id = pid})
    + Cardinality({r \in db.schema_fingerprint : r.provider_id = pid})
    + Cardinality({r \in db.schema_drift_event : r.provider_id = pid})

(* C1: an exception in the unit of one provider is caught and the provider
   is skipped: run_ingest does not raise after a successful discovery, the
   providers get their outcome in list order and all of them have one when
   the run returns, a provider whose unit raised has no row in the committed
   state, and a provider whose unit ended normally has there exactly the
   rows its unit wrote. *)
ProviderFailureIsSkipped ==
    /\ disc = "ok" => pc # "raised"
    /\ Len(results) <= Len(brands)
    /\ \A i \in 1..Len(results) :
          /\ results[i].pid = brands[i].id
          /\ results[i].outcome = "raised" =>
                ProviderRowCount(committed, results[i].pid) = 0
          /\ results[i].outcome = "committed" =>
                ProviderRowCount(committed, results[i].pid) = results[i].wrote
    /\ pc = "done" => Len(results) = Len(brands)

(* two providers, the first raised after it had written rows, the second
   was committed, the run returned: only the second one's rows are committed *)
ProviderFailureWitness ==
    /\ pc = "done"
    /\ Len(results) = 2
    /\ results[1].outcome = "raised" /\ results[1].wrote > 0
    /\ results[2].outcome = "committed" /\ results[2].wrote > 0
    /\ ProviderRowCount(committed, results[1].pid) = 0
    /\ ProviderRowCount(committed, results[2].pid) > 0

(* C2: after a failed discovery (transport failure or non-200 status) the
   API call record that _discover_brands wrote for the registry call is in
   the committed state. *)
DiscoveryFailureRecordCommitted ==
    disc \in DiscoveryFailures =>
        \E r \in committed.api_call_log :
            /\ r.run_id = RunId
            /\ r.provider_id = RegisterProvider
            /\ r.endpoint = EpRegister

(* C3: after a failed discovery run_ingest has raised, no page or detail
   request has been issued and no brand row of the run is stored, neither
   committed nor pending on the connection. *)
DiscoveryFailureAborts ==
    disc \in DiscoveryFailures =>
        /\ pc = "raised"
        /\ requests = <<>>
        /\ results = <<>>
        /\ {r \in committed.data_holder_brand : r.run_id = RunId} = {}
        /\ {r \in conn.data_holder_brand : r.run_id = RunId} = {}

(* the registry call failed and the run has raised with the run row as its
   only committed unit *)
DiscoveryFailureWitness ==
    /\ disc \in DiscoveryFailures
    /\ pc = "raised"
    /\ commits = 1
    /\ committed.pipeline_run # {}

RaisedResultAdded ==
    /\ Len(results') = Len(results) + 1
    /\ results'[Len(results')].outcome = "raised"

UnitIsTransaction ==
    /\ RaisedResultAdded =>
          /\ rollbacks' = rollbacks + 1
          /\ commits' = commits
          /\ committed' = committed
          /\ conn' = committed
          /\ ProviderRowCount(committed', results'[Len(results')].pid) = 0
    /\ commits' \in {commits, commits + 1}
    /\ commits' = commits + 1 => committed' = conn'
    /\ (pc' = "done" /\ \A i \in 1..Len(results') : results'[i].outcome # "raised") =>
          /\ rollbacks' = 0
          /\ commits' = 2 + Len(brands')

(* C4: every unit of run_ingest is one transaction.  The step in which a
   provider's unit raises issues one rollback and no commit, leaves the
   committed state as it was, discards the unit's pending writes, and leaves
   no row of that provider committed; a step commits at most once and then
   publishes the whole connection state; a run that returns with no raised
   unit has issued no rollback and 2 + (number of processed providers)
   commits. *)
UnitsAreTransactions == [][UnitIsTransaction]_vars

(* the second provider raised after writing rows, and the rows the first
   provider committed are all still there *)
UnitsAreTransactionsWitness ==
    /\ Len(results) = 2
    /\ results[1].outcome = "committed" /\ results[1].wrote > 0
    /\ results[2].outcome = "raised" /\ results[2].wrote > 0
    /\ ProviderRowCount(committed, results[1].pid) = results[1].wrote
    /\ rollbacks = 1
    /\ commits = 3

(* C5: when record_and_detect_drift raised on a parsed page or detail
   payload, the API call record and the raw payload row written for that
   payload are in the committed state. *)
ProvenanceSurvivesDriftFailure ==
    \A i \in 1..Len(results) :
        results[i].cause = "drift" =>
            /\ \E r \in committed.api_call_log : r.provider_id = results[i].pid
            /\ \E r \in committed.products_raw \cup committed.product_detail_raw :
                   r.provider_id = results[i].pid

(***************************************************************************)
(* Properties of the pagination of _fetch_products_for_brand               *)
(***************************************************************************)
(* the API call records of the products endpoint of provider pid for url *)
PageCallRecords(db, pid, url) ==
    {r \in db.api_call_log :
        /\ r.run_id = RunId /\ r.provider_id = pid
        /\ r.endpoint = EpProducts /\ r.url = url}

(* the raw page rows of provider pid *)
PageRows(db, pid) ==
    {r \in db.products_raw :
        r.run_id = RunId /\ r.provider_id = pid /\ r.endpoint = EpProducts}

(* the page requests issued for provider pid, in order *)
PageRequests(pid) == SelectSeq(requests, LAMBDA q : q[1] = pid /\ q[2] = EpProducts)

LoopStep ==
    (pc = "pages" /\ next_url \in seen_urls) =>
        /\ requests' = requests
        /\ pc' = "details"
        /\ results' = results
        /\ \E r \in PageCallRecords(conn', brands[idx].id, next_url) : r.error = ErrLoop
        /\ conn'.products_raw = conn.products_raw

(* C12: when the next link leads to a URL already fetched in this
   pagination, the step issues no request, writes an API call record with
   the loop-detected error for that URL, does not raise, and leaves the raw
   page rows as they are. *)
LoopStopsPagination == [][LoopStep]_vars

LimitStep ==
    (/\ pc = "pages"
     /\ Cardinality(seen_urls) = cfg.max_pages_per_provider
     /\ next_url \notin seen_urls) =>
        /\ requests' = requests
        /\ pc' = "details"
        /\ stop' = "limit"
        /\ results' = results
        /\ Len(PageRequests(brands[idx].id)) = cfg.max_pages_per_provider
        /\ conn'.products_raw = conn.products_raw
        /\ {r.page_num : r \in PageRows(conn', brands[idx].id)}
              = 1..cfg.max_pages_per_provider
        /\ Cardinality(PageRows(conn', brands[idx].id)) = cfg.max_pages_per_provider
        /\ {r \in conn'.api_call_log : r.provider_id = brands[idx].id /\ r.error = ErrLimit}
              = {[run_id |-> RunId, provider_id |-> brands[idx].id, endpoint |-> EpProducts,
                  url |-> next_url, http_status |-> 0, error |-> ErrLimit]}

(* C13: when max_pages_per_provider pages have been fetched and the last one
   links to a further, unfetched URL, the step issues no request: exactly
   max pages were requested and are stored with the page numbers 1..max, one
   API call record with the limit-exceeded error is written for the
   unfetched URL, and the function returns without raising. *)
PageLimitStopsPagination == [][LimitStep]_vars

(* two pages fetched under a limit of two, the third URL only recorded *)
PageLimitWitness ==
    /\ pc = "details" /\ stop = "limit"
    /\ cfg.max_pages_per_provider = 2
    /\ Cardinality(seen_urls) = 2
    /\ next_url \notin seen_urls
    /\ Cardinality(PageRows(conn, brands[idx].id)) = 2
    /\ \E r \in PageCallRecords(conn, brands[idx].id, next_url) : r.error = ErrLimit

BothStopConditionsStep ==
    (/\ pc = "pages"
     /\ next_url \in seen_urls
     /\ page_num > cfg.max_pages_per_provider) =>
        /\ pc' = "details"
        /\ stop' = "loop"
        /\ \A r \in PageCallRecords(conn', brands[idx].id, next_url) : r.error = ErrLoop

(* C14: when the next URL was already visited and the page count exceeds
   the maximum in the same iteration, loop detection is evaluated first: the
   loop is left for the loop and the record of the URL carries the
   loop-detected error; nothing is raised. *)
LoopCheckedBeforeLimit == [][BothStopConditionsStep]_vars

(* C15: when pagination has stopped for a reason other than a parsed page
   without next link, the API call record of the URL at which it stopped
   carries an error text. *)
StopCauseRecorded ==
    (pc = "details" /\ stop \in {"loop", "limit", "invalid", "transport", "status", "empty"}) =>
        /\ PageCallRecords(conn, brands[idx].id, next_url) # {}
        /\ \A r \in PageCallRecords(conn, brands[idx].id, next_url) : r.error # None

PageNumbersGapless ==
    \A i \in 1..Len(brands) : \A db \in {conn, committed} :
        LET rows == PageRows(db, brands[i].id)
            reqs == PageRequests(brands[i].id)
        IN /\ {r.page_num : r \in rows} = 1..Cardinality(rows)
           /\ \A r \in rows : r.page_num <= Len(reqs) /\ reqs[r.page_num][3] = r.url

PageNumberStep ==
    /\ PageNumbersGapless'
    /\ pc = "pages" =>
          /\ page_num' \in {page_num, page_num + 1}
          /\ page_num' = page_num + 1 <=>
                \E r \in PageRows(conn', brands[idx].id) :
                    r.page_num = page_num /\ r.payload # None

(* C16: the raw page rows of a provider carry the page numbers 1..k without
   gap or repeat, row n holding the URL of the n-th page request; a step of
   the paginator advances the page number by one exactly when it has stored
   a parsed page under the current number, and otherwise leaves it. *)
PageNumbersAdvanceByOne == [][PageNumberStep]_vars

(* two parsed pages stored as pages 1 and 2, in the order of their requests *)
PageNumbersWitness ==
    /\ pc = "details" /\ stop = "end"
    /\ page_num = 3
    /\ {r.page_num : r \in PageRows(conn, brands[idx].id)} = {1, 2}
    /\ \A r \in PageRows(conn, brands[idx].id) : r.payload # None
    /\ Len(PageRequests(brands[idx].id)) = 2

(* C17: when a page with status 200 does not parse, pagination stops
   without exception at that URL, whose API call record carries the JSON
   parse error with status 200 and whose raw page row has a null payload;
   the unit of that provider is committed with these rows (it is rolled back
   only by an exception of a later detail request of the same unit, never by
   the parse failure), and the run goes on to the remaining providers. *)
ParseFailureIsNotFatal ==
    /\ (pc = "details" /\ stop = "invalid") =>
          /\ PageCallRecords(conn, brands[idx].id, next_url) # {}
          /\ \A r \in PageCallRecords(conn, brands[idx].id, next_url) :
                 r.error = ErrJson /\ r.http_status = 200
          /\ \E r \in PageRows(conn, brands[idx].id) :
                 r.page_num = page_num /\ r.url = next_url /\ r.payload = None
          /\ LET reqs == PageRequests(brands[idx].id)
             IN reqs # <<>> /\ reqs[Len(reqs)][3] = next_url
    /\ \A i \in 1..Len(results) :
          results[i].stop = "invalid" =>
              /\ results[i].outcome = "raised" =>
                    cfg.fetch_product_details /\ results[i].phase = "details"
              /\ results[i].outcome = "committed" =>
                    /\ \E r \in committed.api_call_log :
                           r.provider_id = results[i].pid /\ r.error = ErrJson
                    /\ \E r \in PageRows(committed, results[i].pid) :
                           r.page_num = results[i].page /\ r.payload = None
              /\ pc # "raised"
              /\ pc = "done" => Len(results) = Len(brands)

(* the first of two providers stopped on a parse failure and was committed,
   the second was processed and committed, the run returned *)
ParseFailureWitness ==
    /\ pc = "done"
    /\ Len(results) = 2
    /\ results[1].stop = "invalid" /\ results[1].outcome = "committed"
    /\ results[2].outcome = "committed" /\ results[2].wrote > 0
    /\ \E r \in committed.api_call_log :
           r.provider_id = results[1].pid /\ r.error = ErrJson
    /\ \E r \in PageRows(committed, results[1].pid) : r.payload = None

(***************************************************************************)
(* Properties of get_with_version_fallback                                 *)
(***************************************************************************)
(* the versions to try: the preferred one, then the fallbacks other than it *)
ExpectedVersions == <<ht_preferred>> \o SelectSeq(ht_fallback, LAMBDA v : v # ht_preferred)

(* C18: the requests are sent in the order preferred version, then the
   fallback versions in their order without those equal to the preferred
   one; a request follows another only if that one raised a request
   exception (status 0 here) or answered 406; a response with any other
   status, a server error included, is the last request and is what the
   call returns. *)
HttpVersionOrder ==
    /\ Len(ht_sent) <= Len(ExpectedVersions)
    /\ \A k \in 1..Len(ht_sent) : ht_sent[k].xv = ExpectedVersions[k]
    /\ \A k \in 1..Len(ht_sent) :
          k < Len(ht_sent) => ht_sent[k].status \in {0, 406}
    /\ \A k \in 1..Len(ht_sent) :
          ht_sent[k].status \notin {0, 406} =>
              /\ ht_pc = "returned"
              /\ ht_ret.kind = "return"
              /\ ht_ret.resp.status = ht_sent[k].status
    /\ ht_pc \in {"returned", "raised"} =>
          \/ ht_sent[Len(ht_sent)].status \notin {0, 406}
          \/ Len(ht_sent) = Len(ExpectedVersions)

(* preferred version rejected with 406, the first fallback answered with a
   server error: two requests, the error response returned, a third version
   left untried *)
HttpVersionOrderWitness ==
    /\ ht_pc = "returned"
    /\ Len(ExpectedVersions) = 3
    /\ Len(ht_sent) = 2
    /\ ht_sent[1].xv = ht_preferred /\ ht_sent[1].status = 406
    /\ ht_sent[2].xv = ht_fallback[1] /\ ht_sent[2].status = 500
    /\ ht_ret.resp.status = 500

(* C19: the call raises HttpRequestFailed exactly when every attempt raised
   a request exception; when some attempt got a response of any status it
   returns a response; the assertion on last_resp never fails. *)
HttpRaisesOnlyWithoutResponse ==
    ht_pc \in {"returned", "raised"} =>
        /\ ht_sent # <<>>
        /\ ht_ret.kind # "assert"
        /\ ht_ret.kind = "raise" <=> \A k \in 1..Len(ht_sent) : ht_sent[k].status = 0
        /\ (\E k \in 1..Len(ht_sent) : ht_sent[k].status # 0) => ht_ret.kind = "return"

(* a 406 followed by a request exception on the last version: the 406
   response is returned, nothing is raised *)
HttpRaisesOnlyWitness ==
    /\ ht_pc = "returned"
    /\ Len(ht_sent) = 2
    /\ ht_sent[1].status = 406
    /\ ht_sent[2].status = 0
    /\ ht_ret.kind = "return" /\ ht_ret.resp.status = 406

(* C20: the version returned with an accepted response (status other than
   406) is the integer of its x-v header when the header is there and is an
   integer ("3" gives 3, "12" gives 12), and the version sent in the request
   of that response when the header is absent, empty or not an integer. *)
HttpReturnedVersion ==
    (ht_pc = "returned" /\ ht_ret.resp.status # 406) =>
        LET h == ht_ret.resp.xv
            sent_xv == ht_sent[Len(ht_sent)].xv
        IN /\ h = Header(<<51>>) => ht_ret.xv = 3
           /\ h = Header(<<49, 50>>) => ht_ret.xv = 12
           /\ h \in {None, Header(<<>>), Header(<<51, 120>>)} => ht_ret.xv = sent_xv

(* the preferred version was rejected, the fallback accepted without header:
   the returned version is the fallback *)
HttpReturnedVersionWitness ==
    /\ ht_pc = "returned"
    /\ Len(ht_sent) = 2
    /\ ht_sent[1].xv = ht_preferred /\ ht_sent[1].status = 406
    /\ ht_sent[2].status = 200
    /\ ht_ret.resp.xv = None
    /\ ht_ret.xv = ht_fallback[1]
    /\ ht_ret.xv # ht_preferred

(* the fingerprint rows of one (provider, endpoint) and the latest of them *)
FpRowsOf(fps, provider_id, endpoint) ==
    {r \in fps : r.provider_id = provider_id /\ r.endpoint = endpoint}

LatestOf(rows) == {r \in rows : \A q \in rows : q.observed_at <= r.observed_at}

(* rows written by the step from the current state to the next *)
AddedFingerprints == dr_db'.schema_fingerprint \ dr_db.schema_fingerprint
AddedDriftEvents == dr_db'.schema_drift_event \ dr_db.schema_drift_event

(***************************************************************************)
(* C6: a call of record_and_detect_drift that returns inserts exactly one  *)
(* drift event when a prior fingerprint exists for the same (provider,     *)
(* endpoint) and the hash of the most recent one differs from the new      *)
(* hash; the event carries the old hash, the new hash and the run id of    *)
(* the call.  It inserts no drift event when there is no prior fingerprint *)
(* or when the most recent hash equals the new hash.                       *)
(***************************************************************************)
DriftEventOnChange ==
    dr_result' = "ok" =>
        \A n \in AddedFingerprints :
            LET prior == FpRowsOf(dr_db.schema_fingerprint, n.provider_id, n.endpoint)
            IN IF prior # {} /\ \A r \in LatestOf(prior) : r.fingerprint_hash # n.fingerprint_hash
               THEN \E r \in LatestOf(prior) :
                        AddedDriftEvents =
                            {[provider_id |-> n.provider_id, endpoint |-> n.endpoint,
                              old_fingerprint_hash |-> r.fingerprint_hash,
                              new_fingerprint_hash |-> n.fingerprint_hash,
                              observed_at |-> n.observed_at, run_id |-> n.run_id,
                              note |-> DriftNote]}
               ELSE AddedDriftEvents = {}

DriftEventExactlyOnChange == [][DriftEventOnChange]_vars

(* one (provider, endpoint) holds three fingerprints: the first, one equal to
   it (no event) and one that differs, with exactly one event for the change *)
DriftEventWitness ==
    /\ dr_result = "ok"
    /\ \E k \in DriftKeys :
          LET rows == FpRowsOf(dr_db.schema_fingerprint, k[1], k[2])
              evs == {e \in dr_db.schema_drift_event :
                         e.provider_id = k[1] /\ e.endpoint = k[2]}
          IN /\ Cardinality(rows) = 3
             /\ Cardinality({r.fingerprint_hash : r \in rows}) = 2
             /\ Cardinality(evs) = 1
             /\ \A e \in evs : /\ e.old_fingerprint_hash # e.new_fingerprint_hash
                                /\ e.observed_at = MaxTime
                                /\ e.old_fingerprint_hash \in {r.fingerprint_hash : r \in rows}

(***************************************************************************)
(* C7: the previous hash that record_and_detect_drift compares against is  *)
(* the hash of the fingerprint row with the greatest observed_at among all *)
(* rows of exactly the same provider and endpoint, whatever their run id;  *)
(* it is None when there is no such row.  Rows of another provider or      *)
(* endpoint do not enter.                                                  *)
(***************************************************************************)
PreviousIsLatestOfSameKey ==
    dr_result' = "ok" =>
        \A n \in AddedFingerprints :
            LET prior == FpRowsOf(dr_db.schema_fingerprint, n.provider_id, n.endpoint)
            IN IF prior = {} THEN dr_old' = None
               ELSE \E r \in prior :
                       /\ \A q \in prior : q.observed_at <= r.observed_at
                       /\ dr_old' = r.fingerprint_hash

PreviousHashIsLatestForKey == [][PreviousIsLatestOfSameKey]_vars

(* the previous hash came from a row of an earlier run although a row of
   another endpoint, and one of another provider, is later and differs; and
   of two rows of the key itself the later one was taken *)
PreviousHashWitness ==
    /\ dr_result = "ok"
    /\ dr_old # None
    /\ \E e \in dr_db.schema_drift_event :
          LET rows == FpRowsOf(dr_db.schema_fingerprint, e.provider_id, e.endpoint)
          IN /\ e.old_fingerprint_hash = dr_old
             /\ e.run_id = 2
             /\ \E r \in rows : /\ r.run_id = 1
                                 /\ r.fingerprint_hash = dr_old
                                 /\ r.observed_at < e.observed_at
             /\ \E q \in dr_db.schema_fingerprint :
                    /\ q.provider_id = e.provider_id
                    /\ q.endpoint # e.endpoint
                    /\ q.observed_at = MaxTime
                    /\ q.fingerprint_hash # dr_old
                    /\ e.observed_at < MaxTime

(***************************************************************************)
(* C8: a call of record_and_detect_drift that returns adds exactly one     *)
(* fingerprint row, whether or not it records drift; no call removes or    *)
(* changes a fingerprint row or a drift-event row, and a call that raises  *)
(* leaves both tables as they were.                                        *)
(***************************************************************************)
FingerprintAppendOnly ==
    /\ dr_db.schema_fingerprint \subseteq dr_db'.schema_fingerprint
    /\ dr_db.schema_drift_event \subseteq dr_db'.schema_drift_event
    /\ dr_result' = "ok" =>
          /\ Cardinality(AddedFingerprints) = 1
          /\ Cardinality(dr_db'.schema_fingerprint) = Cardinality(dr_db.schema_fingerprint) + 1
          /\ Cardinality(AddedDriftEvents) <= 1
    /\ dr_result' = "raised" => dr_db' = dr_db

FingerprintHistoryOnlyGrows == [][FingerprintAppendOnly]_vars

(* the same key holds two rows with equal hashes (a call without drift) and
   another key holds a drift event (a call with drift) *)
FingerprintAppendWitness ==
    /\ dr_result = "ok"
    /\ Cardinality(dr_db.schema_fingerprint) = MaxFpRows
    /\ \E r, q \in dr_db.schema_fingerprint :
          /\ r # q
          /\ r.provider_id = q.provider_id /\ r.endpoint = q.endpoint
          /\ r.fingerprint_hash = q.fingerprint_hash
    /\ dr_db.schema_drift_event = {}
    /\ dr_old # None

(***************************************************************************)
(* C9: fingerprint_payload returns the same hash and the same sorted path  *)
(* list for two payloads that differ only in the order of the keys inside  *)
(* their dicts, at any nesting level.                                      *)
(***************************************************************************)
FpKeyOrderIndependent ==
    (fp_pc = "compared" /\ fp_rel = "perm") =>
        /\ fp_out_y.h = fp_out.h
        /\ fp_out_y.paths = fp_out.paths

(* a dict nested inside the payload had its keys reordered and several paths exist *)
FpKeyOrderWitness ==
    /\ fp_pc = "compared" /\ fp_rel = "perm"
    /\ fp_y # fp_x
    /\ fp_x.t = "dict" /\ Len(fp_x.kids) = 2
    /\ \E i \in DOMAIN fp_x.kids : \E j \in DOMAIN fp_y.kids :
          /\ fp_x.kids[i][1] = fp_y.kids[j][1]
          /\ fp_x.kids[i][2] # fp_y.kids[j][2]
    /\ Len(fp_out.paths) >= 4
    /\ fp_out_y = fp_out

(***************************************************************************)
(* C10: values nested deeper than max_depth contribute no paths: two       *)
(* payloads that agree down to max_depth and differ only in values located *)
(* at a depth greater than max_depth get the same hash and path list; and  *)
(* every path found under a smaller max_depth is found under a larger one. *)
(***************************************************************************)
FpDepthTruncation ==
    /\ (fp_pc = "compared" /\ fp_rel = "deep") =>
            /\ fp_out_y.h = fp_out.h
            /\ fp_out_y.paths = fp_out.paths
    /\ (fp_pc = "compared" /\ fp_rel = "depth" /\ fp_md2 >= fp_md) =>
            Range(fp_out.paths) \subseteq Range(fp_out_md2.paths)

(* the two payloads differ below max_depth, hash alike under max_depth, and
   under max_depth + 1 the hash of each changes and tells them apart *)
FpDepthTruncationWitness ==
    /\ fp_pc = "compared" /\ fp_rel = "deep"
    /\ fp_y # fp_x
    /\ fp_md >= 1
    /\ fp_out_y.h = fp_out.h
    /\ fingerprint_payload(fp_x, fp_md + 1).h # fp_out.h
    /\ fingerprint_payload(fp_y, fp_md + 1).h # fingerprint_payload(fp_x, fp_md + 1).h

(***************************************************************************)
(* C11: an array contributes the one path parent[] once (the path list has *)
(* no repeated entry and holds "[]" for a top-level array), and only its   *)
(* first 3 elements are traversed: two payloads that differ only in array  *)
(* elements at index 3 or beyond get the same path list and the same hash. *)
(***************************************************************************)
FpArraySampling ==
    /\ fp_pc # "init" =>
          /\ \A i, j \in DOMAIN fp_out.paths : i # j => fp_out.paths[i] # fp_out.paths[j]
          /\ fp_x.t = "list" =>
                Cardinality({i \in DOMAIN fp_out.paths :
                                fp_out.paths[i] = <<ChOpen, ChClose>>}) = 1
    /\ (fp_pc = "compared" /\ fp_rel = "tail") =>
          /\ fp_out_y.h = fp_out.h
          /\ fp_out_y.paths = fp_out.paths

(* an array of scalars whose element at index 3 is a dict in one payload and
   something else in the other: "[]" is the only path of both *)
FpArraySamplingWitness ==
    /\ fp_pc = "compared" /\ fp_rel = "tail"
    /\ fp_x.t = "list" /\ Len(fp_x.kids) >= 4
    /\ \A i \in 1..3 : fp_x.kids[i] = Scalar
    /\ fp_x.kids[4].t = "dict"
    /\ fp_y # fp_x
    /\ fp_out.paths = << <<ChOpen, ChClose>> >>
    /\ fp_out_y = fp_out

(***************************************************************************)
(* Properties of the upserts                                               *)
(***************************************************************************)
UpsertTables == {"api_call_log", "products_raw", "product_detail_raw"}

(* the key columns a write or a row has besides run_id and provider_id *)
UpsertKey(t, w) ==
    CASE t = "api_call_log" -> <<w.endpoint, w.url>>
      [] t = "products_raw" -> <<w.endpoint, w.page_num>>
      [] t = "product_detail_raw" -> <<w.product_id>>

WriteKey(w) ==
    IF w.table = "products_raw" THEN <<EpProducts, w.page_num>> ELSE UpsertKey(w.table, w)

(* the positions of the writes hist made to table t under key k *)
WritesTo(hist, t, k) == {i \in DOMAIN hist : hist[i].table = t /\ WriteKey(hist[i]) = k}

LastWriteTo(hist, t, k) ==
    hist[CHOOSE i \in WritesTo(hist, t, k) : \A j \in WritesTo(hist, t, k) : j <= i]

(* the columns of the SET list of table t agree between row r and write w *)
SetColumnsEqual(t, r, w) ==
    /\ r.http_status = w.http_status
    /\ IF t = "api_call_log" THEN r.error = w.error ELSE r.payload = w.payload

(* table t of db holds one row per key written, with the values of the last write *)
LastWriteWins(db, hist, t) ==
    LET keys == {WriteKey(hist[i]) : i \in {j \in DOMAIN hist : hist[j].table = t}}
    IN /\ \A k \in keys : Cardinality({r \in db[t] : UpsertKey(t, r) = k}) = 1
       /\ \A r \in db[t] :
             /\ r.run_id = RunId /\ r.provider_id = UpsertProvider
             /\ UpsertKey(t, r) \in keys
             /\ SetColumnsEqual(t, r, LastWriteTo(hist, t, UpsertKey(t, r)))

UpsertStep ==
    LET w == up_hist'[Len(up_hist')]
    IN /\ \A t \in UpsertTables : LastWriteWins(up_db', up_hist', t)
       \* repeating the write just made changes nothing
       /\ (up_hist # <<>> /\ up_hist[Len(up_hist)] = w) => up_db' = up_db
       \* rows of other keys, and other tables, are as they were
       /\ \A t \in UpsertTables :
             {r \in up_db'[t] : t # w.table \/ UpsertKey(t, r) # WriteKey(w)}
               = {r \in up_db[t] : t # w.table \/ UpsertKey(t, r) # WriteKey(w)}

(* C21: after any sequence of writes each of the api call log, the raw page
   table and the raw detail table holds exactly one row per key, carrying the
   status, error and payload of the most recent write for that key; a write
   repeated changes nothing, and a write leaves the rows of every other key
   as they were. *)
UpsertLastWriteWins == [][UpsertStep]_vars

(* a key written twice with different values, beside a row of another key *)
UpsertLastWriteWinsWitness ==
    /\ Len(up_hist) = 3
    /\ \E t \in UpsertTables :
          /\ up_hist[1].table = t /\ up_hist[2].table = t /\ up_hist[3].table = t
          /\ WriteKey(up_hist[1]) # WriteKey(up_hist[2])
          /\ WriteKey(up_hist[3]) = WriteKey(up_hist[1])
          /\ up_hist[3].http_status # up_hist[1].http_status
          /\ Cardinality(up_db[t]) = 2

(***************************************************************************)
(* Properties of run_ingest: the run row, the provider limit, the details  *)
(***************************************************************************)
RunTables == {"data_holder_brand", "api_call_log", "schema_fingerprint", "schema_drift_event",
              "products_raw", "product_detail_raw"}

(* every row of db refers to a pipeline_run row that runs holds *)
RowsReferTo(db, runs) ==
    \A t \in RunTables : \A r \in db[t] : \E run \in runs : run.run_id = r.run_id

RunRowStep ==
    \* rows committed, and rows written on the connection, refer to a committed run row
    /\ RowsReferTo(committed', committed'.pipeline_run)
    /\ RowsReferTo(conn', committed'.pipeline_run)
    \* the commit that publishes the run row publishes nothing else
    /\ (committed.pipeline_run = {} /\ committed'.pipeline_run # {})
          => /\ \A t \in RunTables : committed'[t] = {}
             /\ conn' = committed'
    \* the run row stays as it was committed
    /\ committed.pipeline_run \subseteq committed'.pipeline_run
    /\ committed.pipeline_run # {} => committed'.pipeline_run = committed.pipeline_run

(* C22: every committed brand, api call, raw page, raw detail, fingerprint and
   drift-event row carries the run id of a committed pipeline_run row; the run
   row is committed by a transaction of its own before any other row of the
   run is written, and no later step deletes or changes it. *)
RunRowCommittedFirst == [][RunRowStep]_vars

(* a finished run that committed rows in every table *)
RunRowCommittedFirstWitness ==
    /\ pc = "done"
    /\ committed.pipeline_run # {}
    /\ \A t \in RunTables : committed[t] # {}

DiscoveredIds(db) == {r.data_holder_brand_id : r \in db.data_holder_brand}

(* what the claim expects of the registry answer data under limit *)
ExpectedProcessed(data, limit) ==
    LET passed == SelectSeq(data, LAMBDA b : b.banking)
        n == Len(passed)
        k == IF limit > 0 THEN Min(limit, n) ELSE n
    IN [i \in 1..k |-> passed[i]]

ProviderLimitStep ==
    /\ (disc = "pending" /\ disc' = "ok") =>
          \E data \in RegistryBodies :
             /\ DiscoveredIds(committed') = {b.id : b \in {x \in Range(data) : x.banking}}
             /\ brands' = ExpectedProcessed(data, cfg.provider_limit)
    /\ disc' = "ok" => brands' \in {ExpectedProcessed(data, cfg.provider_limit) :
                                        data \in RegistryBodies}
    /\ pc' = "done" => [i \in DOMAIN results' |-> results'[i].pid]
                          = [i \in DOMAIN brands' |-> brands'[i].id]

(* C23: discovery stores every brand that passes the industry filter, and the
   run then processes exactly the first min(limit, n) of them in discovered
   order, or all n when the limit is unset, zero or negative. *)
ProviderLimitAfterPersist == [][ProviderLimitStep]_vars

(* a limit below the number of stored brands: the second brand is stored and
   not processed *)
ProviderLimitAfterPersistWitness ==
    /\ pc = "done"
    /\ cfg.provider_limit = 1
    /\ Cardinality(DiscoveredIds(committed)) = 2
    /\ Len(results) = 1
    /\ results[1].pid = brands[1].id

(* the product ids provider pid was asked the detail of, one per request *)
DetailRequests(pid) ==
    SelectSeq(requests, LAMBDA q : q[1] = pid /\ q[2] = EpDetail)

DetailIdsRequested(pid) == {q[3] : q \in Range(DetailRequests(pid))}

(* C24: detail requests of a provider are issued only when detail fetching is
   configured and its pagination yielded product ids; none is issued while
   the provider's pages are fetched, each collected id is requested at most
   once, and a detail phase that ends has requested every collected id. *)
DetailPhaseGated ==
    /\ \A i \in DOMAIN requests :
          requests[i][2] = EpDetail =>
             /\ cfg.fetch_product_details
             /\ \A j \in DOMAIN requests :
                   (j > i /\ requests[j][1] = requests[i][1]) => requests[j][2] = EpDetail
             /\ \A j \in DOMAIN requests : (j # i /\ requests[j] = requests[i]) => FALSE
    /\ pc = "pages" => DetailRequests(brands[idx].id) = <<>>
    /\ pc = "details" =>
          /\ DetailIdsRequested(brands[idx].id) \cap Range(todo) = {}
          /\ DetailIdsRequested(brands[idx].id) \cup Range(todo)
                = IF cfg.fetch_product_details THEN product_ids ELSE {}
    /\ (pc \in {"loop", "done"} /\ idx > 1 /\ results[idx - 1].outcome = "committed") =>
          /\ DetailIdsRequested(brands[idx - 1].id)
                = IF cfg.fetch_product_details THEN product_ids ELSE {}
          /\ Len(DetailRequests(brands[idx - 1].id))
                = IF cfg.fetch_product_details THEN Cardinality(product_ids) ELSE 0

(* a committed unit whose pages yielded two product ids, each requested once *)
DetailPhaseGatedWitness ==
    /\ pc = "loop"
    /\ idx = 2
    /\ results[1].outcome = "committed"
    /\ Cardinality(product_ids) = 2
    /\ Len(DetailRequests(brands[1].id)) = 2

(***************************************************************************)
(* Properties of the QA gates                                              *)
(***************************************************************************)
GateExpectedPass ==
    /\ gt_in.actual # None
    /\ IF gt_in.kind = "min" THEN gt_in.actual.num >= gt_in.threshold
                              ELSE gt_in.actual.num <= gt_in.threshold

(* C26: _gate_min passes exactly when the actual value is present and is at
   least the threshold, _gate_max exactly when it is present and at most the
   threshold; a missing actual value fails the gate; the comparison shown is
   ">=" (min) or "<=" (max) exactly when the gate passed and "<" or ">" when
   it failed; with threshold 5 the minimum gate fails 3 with "<" and passes
   7 with ">=". *)
GateComparison ==
    gt_pc = "done" =>
       /\ gt_out.passed = GateExpectedPass
       /\ gt_in.actual = None => (~gt_out.passed /\ gt_out.actual_value = None)
       /\ gt_in.actual # None =>
             /\ gt_out.details.kind = "compared"
             /\ gt_out.details.op
                   = IF gt_in.kind = "min" THEN (IF gt_out.passed THEN ">=" ELSE "<")
                                           ELSE (IF gt_out.passed THEN "<=" ELSE ">")
       /\ (gt_in.kind = "min" /\ gt_in.threshold = 5 /\ gt_in.actual = Num(3))
             => (~gt_out.passed /\ gt_out.details.op = "<")
       /\ (gt_in.kind = "min" /\ gt_in.threshold = 5 /\ gt_in.actual = Num(7))
             => (gt_out.passed /\ gt_out.details.op = ">=")

(* the minimum gate asked about an actual value equal to the threshold *)
GateComparisonWitness ==
    /\ gt_pc = "done"
    /\ gt_in.kind = "min"
    /\ gt_in.actual = Num(gt_in.threshold)
    /\ gt_out.passed

(***************************************************************************)
(* Properties of run_qa                                                    *)
(***************************************************************************)
QaGateNames == <<"providers_ok", "dim_products_rows", "rate_changes_rows",
                 "products_freshness_hours", "schema_drift_events", "dbt_tests">>

QaResultNames(rs) == [i \in DOMAIN rs |-> rs[i].name]

(* C25: run_qa returns 0 exactly when every recorded gate result passed and 1
   when at least one failed, and the status of the summary is PASS exactly
   when it returns 0. *)
ExitCodeAgrees ==
    qa_pc = "returned" =>
       /\ qa_ret.code \in {0, 1}
       /\ qa_ret.code = 0 <=> \A i \in DOMAIN qa_results : qa_results[i].passed
       /\ qa_ret.code = 0 <=> \A r \in qa_table : r.passed
       /\ qa_ret.code = 1 <=> \E i \in DOMAIN qa_results : ~qa_results[i].passed
       /\ qa_summary.status = IF qa_ret.code = 0 THEN "PASS" ELSE "FAIL"

(* a run in which only the freshness gate failed *)
ExitCodeAgreesWitness ==
    /\ qa_pc = "returned"
    /\ qa_ret.code = 1
    /\ \A i \in DOMAIN qa_results :
          qa_results[i].passed <=> qa_results[i].name # "products_freshness_hours"

QaResolveStep ==
    /\ \A j \in DOMAIN RelGates :
          LET g == RelGates[j]
              r == qa_results'[Len(qa_results')]
          IN (qa_pc = g.name /\ qa_pc' # qa_pc) =>
                /\ (\A k \in 1..2 : qa_lookup'[k] = "missing") =>
                      /\ qa_results' = Append(qa_results, r)
                      /\ r.name = g.name
                      /\ ~r.passed
                      /\ r.actual_value = None
                      /\ r.details = MissingRelation(g.candidates)
                      /\ qa_nqueries' = qa_nqueries
                      /\ qa_rollbacks' = qa_rollbacks
                      /\ qa_ret' = None
                      /\ qa_pc' = QaAfter(g.name)
                /\ qa_lookup'[1] = "exists" =>
                      /\ qa_rel' = Rel(g.candidates[1])
                      /\ qa_nqueries' = qa_nqueries + 1
                /\ (qa_lookup'[1] = "missing" /\ qa_lookup'[2] = "exists") =>
                      /\ qa_rel' = Rel(g.candidates[2])
                      /\ qa_nqueries' = qa_nqueries + 1
    /\ qa_pc' = "returned" => QaResultNames(qa_results') = QaGateNames

(* C27: when no candidate relation of a gate exists the gate is recorded as
   failed with the missing-relation detail and no actual value, no metric
   query runs, nothing is raised and the next gate is evaluated; when several
   candidates exist the first of the list is queried. *)
MissingRelationIsFailedGate == [][QaResolveStep]_vars

(* the first gate found no relation, the third found both of its candidates *)
MissingRelationIsFailedGateWitness ==
    /\ qa_pc = "returned"
    /\ qa_results[1].details.kind = "missing relation"
    /\ qa_results[2].passed
    /\ qa_lookup = [k \in 1..2 |-> "exists"]
    /\ qa_rel = Rel(RelGates[3].candidates[1])

(* what the claim expects of gate name on the value v *)
QaExpectedPass(name, v) ==
    CASE name = "providers_ok" -> v # None /\ v.num >= qa_cfg.min_providers_ok
      [] name = "dim_products_rows" -> v # None /\ v.num >= qa_cfg.min_products
      [] name = "rate_changes_rows" -> v # None /\ v.num >= qa_cfg.min_rate_changes
      [] name = "products_freshness_hours" -> v # None /\ v.num <= qa_cfg.max_freshness_hours
      [] name = "schema_drift_events" ->
            IF qa_cfg.fail_on_schema_drift THEN v # None /\ v.num = 0 ELSE TRUE

QaMetricStep ==
    LET r == qa_results'[Len(qa_results')]
    IN /\ qa_nqueries' = qa_nqueries + 1 =>
             /\ qa_results' = Append(qa_results, r)
             /\ r.name = qa_pc
             /\ qa_pc' = QaAfter(qa_pc)
             /\ qa_tx' = "ok"
             /\ IF qa_answer'.raises
                THEN /\ ~r.passed
                     /\ r.actual_value = None
                     /\ r.details = QueryFailed(qa_answer'.error)
                     /\ qa_rollbacks' = qa_rollbacks + 1
                ELSE /\ r.actual_value = qa_answer'.value
                     /\ r.details.kind # "query failed"
                     /\ r.passed = QaExpectedPass(r.name, qa_answer'.value)
                     /\ qa_rollbacks' = qa_rollbacks
       /\ qa_pc' = "raised" => \E k \in 1..2 : qa_lookup'[k] = "raises"
       /\ qa_pc' = "returned" => Len(qa_results') = Len(QaGateNames)

(* C28: a metric query that raises gives a failed gate with the error text and
   no actual value and rolls the connection back; every later gate is
   evaluated and gets the result its own answer determines, as if the failed
   query had not been run. *)
MetricFailureIsolated == [][QaMetricStep]_vars

(* the query of the first gate failed; the gates after it passed on their data *)
MetricFailureIsolatedWitness ==
    /\ qa_pc = "returned"
    /\ qa_results[1].details.kind = "query failed"
    /\ qa_rollbacks = 1
    /\ \A i \in 2..Len(qa_results) : qa_results[i].passed
    /\ qa_results[4].actual_value = Num(35)

(* C29: no failure of a query made while the gates are evaluated leaves
   run_qa: also a failed relation lookup becomes a failed gate, and run_qa
   persists the results and returns an exit code. *)
QaNeverRaises ==
    /\ qa_pc # "raised"
    /\ (qa_ret # None /\ qa_pc # "dbt raised") =>
          (qa_pc = "returned" /\ qa_ret.code \in {0, 1} /\ qa_table # {})

DriftResults == {qa_results[i] : i \in {j \in DOMAIN qa_results :
                                          qa_results[j].name = "schema_drift_events"}}

(* the schema_drift_events result under fail-on-schema-drift *)
DriftGateEnabled(r) ==
    /\ r.threshold_value = Num(0)
    /\ r.passed <=> (~qa_answer.raises /\ qa_answer.value = Num(0))

(* C30 as stated: with fail-on-schema-drift the gate has threshold 0 and
   passes exactly when the count is 0; without it the observation is recorded
   as passed in every evaluation. *)
DriftGateAlwaysPassesWhenDisabled ==
    \A r \in DriftResults :
       IF qa_cfg.fail_on_schema_drift THEN DriftGateEnabled(r) ELSE r.passed

(* C30 amended: with fail-on-schema-drift the gate has threshold 0 and passes
   exactly when the count is 0; without it the observation has no threshold
   and is recorded as passed with the count as actual value whenever the
   count query answers, whatever the count; in both modes a count query that
   raises is recorded as a failed gate without actual value. *)
DriftGateByMode ==
    /\ Cardinality(DriftResults) <= 1
    /\ qa_pc \in {"finish", "returned"} => Cardinality(DriftResults) = 1
    /\ \A r \in DriftResults :
          /\ IF qa_cfg.fail_on_schema_drift
             THEN DriftGateEnabled(r)
             ELSE /\ r.threshold_value = None
                  /\ r.passed <=> ~qa_answer.raises
                  /\ ~qa_answer.raises => (r.actual_value = qa_answer.value
                                           /\ r.details.kind = "observed")
          /\ qa_answer.raises => (/\ ~r.passed
                                  /\ r.actual_value = None
                                  /\ r.details = QueryFailed(qa_answer.error))

(* the gate is disabled, two drift events were counted, the observation passed *)
DriftGateByModeWitness ==
    /\ qa_pc = "returned"
    /\ ~qa_cfg.fail_on_schema_drift
    /\ qa_answer = QValue(2)
    /\ \E r \in DriftResults : r.passed /\ r.actual_value = Num(2)

(***************************************************************************)
(* Properties of get_with_version_fallback: every response was a 406       *)
(***************************************************************************)
(* the position in ht_sent of the request that got the last response *)
LastResponded ==
    CHOOSE k \in DOMAIN ht_sent :
       /\ ht_sent[k].status # 0
       /\ \A j \in DOMAIN ht_sent : ht_sent[j].status # 0 => j <= k

(* C36: when every attempt that got a response got a 406, the call returns
   the last 406 response without raising, with the version of its x-v header
   when there is one and else the version sent in the request that produced
   the returned response. *)
Http406ReturnedVersion ==
    (/\ ht_pc \in {"returned", "raised"}
     /\ \E k \in DOMAIN ht_sent : ht_sent[k].status = 406
     /\ \A k \in DOMAIN ht_sent : ht_sent[k].status \in {0, 406}) =>
        /\ ht_pc = "returned"
        /\ ht_ret.kind = "return"
        /\ ht_ret.resp.status = 406
        /\ ht_ret.resp.xv = Header(<<51>>) => ht_ret.xv = 3
        /\ ht_ret.resp.xv = Header(<<49, 50>>) => ht_ret.xv = 12
        /\ ht_ret.resp.xv \in {None, Header(<<>>)} => ht_ret.xv = ht_sent[LastResponded].xv

(***************************************************************************)
(* Properties of run_ingest: the connection and the session                *)
(***************************************************************************)
(* C33: on every exit of run_ingest, by return, by a failed discovery or by
   a failed insert of the run row, the connection and the session are both
   closed; until then both are open. *)
ResourcesClosedOnExit ==
    /\ pc \in {"done", "raised"} => resources = {}
    /\ pc \notin {"done", "raised"} => resources = {"conn", "session"}

(* the insert of the run row failed: run_ingest has raised before discovery,
   nothing is committed and both resources are closed *)
ResourcesClosedWitness ==
    /\ pc = "raised"
    /\ disc = "pending"
    /\ rollbacks = 1
    /\ committed.pipeline_run = {}
    /\ resources = {}

(***************************************************************************)
(* Properties of _fetch_products_for_brand: the records of fetched pages   *)
(***************************************************************************)
(* C40: after pagination has stopped on a detected loop or on the page
   limit, every page of the provider that was fetched (it has a raw page
   row) still has an API call record with that page's own HTTP status. *)
FetchedPageRecordsKept ==
    (pc = "details" /\ stop \in {"loop", "limit"}) =>
        \A r \in PageRows(conn, brands[idx].id) :
            \E a \in PageCallRecords(conn, brands[idx].id, r.url) :
                a.http_status = r.http_status

(***************************************************************************)
(* Properties of run_ingest: transport failures of pages and details       *)
(***************************************************************************)
DetailCallRecords(db, pid, url) ==
    {r \in db.api_call_log :
        /\ r.run_id = RunId /\ r.provider_id = pid
        /\ r.endpoint = EpDetail /\ r.url = url}

(* a page request that ended in HttpRequestFailed *)
PageTransportStep ==
    (pc = "pages" /\ requests' # requests /\ last_fetch' = "fail") =>
        /\ PageCallRecords(conn', brands[idx].id, next_url) # {}
        /\ \A r \in PageCallRecords(conn', brands[idx].id, next_url) :
               r.http_status = 0 /\ r.error = ErrTransport
        /\ PageRows(conn', brands[idx].id) = PageRows(conn, brands[idx].id)
        /\ \A r \in PageRows(conn', brands[idx].id) : r.page_num # page_num
        /\ pc' = "details"
        /\ stop' = "transport"
        /\ results' = results
        /\ rollbacks' = rollbacks

(* a detail request that ended in HttpRequestFailed *)
DetailTransportStep ==
    (pc = "details" /\ requests' # requests /\ last_fetch' = "fail") =>
        /\ DetailCallRecords(conn', brands[idx].id, Head(todo)) # {}
        /\ \A r \in DetailCallRecords(conn', brands[idx].id, Head(todo)) :
               r.http_status = 0 /\ r.error = ErrTransport
        /\ conn'.product_detail_raw = conn.product_detail_raw
        /\ pc' = "details"
        /\ todo' = Tail(todo)
        /\ results' = results
        /\ rollbacks' = rollbacks

(* C37: a transport failure on a products page is recorded as an API call
   record with status 0 and the error text, writes no raw page row for that
   page and ends the pagination of the provider without raising; a transport
   failure on a detail request is recorded the same way, writes no raw detail
   row, and the loop goes on with the remaining product ids. *)
TransportFailureRecorded == [][PageTransportStep /\ DetailTransportStep]_vars

(* the detail request of x failed in transport, the one of y was issued after
   it, and the provider's unit is about to be committed *)
TransportFailureWitness ==
    /\ pc = "details"
    /\ todo = <<>>
    /\ DetailRequests(brands[idx].id) =
           <<<<brands[idx].id, EpDetail, "x">>, <<brands[idx].id, EpDetail, "y">>>>
    /\ \E r \in DetailCallRecords(conn, brands[idx].id, "x") :
           r.http_status = 0 /\ r.error = ErrTransport
    /\ \E r \in DetailCallRecords(conn, brands[idx].id, "y") : r.http_status = 200

(***************************************************************************)
(* Properties of _fetch_products_for_brand: termination                    *)
(***************************************************************************)
(* max(max_pages_per_provider, 0) *)
PageBudget == IF cfg.max_pages_per_provider > 0 THEN cfg.max_pages_per_provider ELSE 0

(* in the while loop page_num is one more than the number of page requests
   issued for the provider, and no provider gets more page requests than the
   configured maximum *)
PagesWithinBudget ==
    /\ \A i \in DOMAIN brands : Len(PageRequests(brands[i].id)) <= PageBudget
    /\ pc = "pages" =>
          /\ page_num = Len(PageRequests(brands[idx].id)) + 1
          /\ page_num <= PageBudget + 1

(* an iteration of the while loop either leaves the loop or issues one page
   request and advances page_num by one; without budget it leaves at once *)
PageLoopStep ==
    pc = "pages" =>
        /\ \/ pc' # "pages"
           \/ /\ page_num' = page_num + 1
              /\ Len(requests') = Len(requests) + 1
        /\ Len(requests') <= Len(requests) + 1
        /\ page_num > cfg.max_pages_per_provider =>
              (pc' = "details" /\ requests' = requests)

(* C39: whatever the server answers, the while loop of
   _fetch_products_for_brand ends after at most max_pages_per_provider page
   requests: every iteration leaves the loop or advances the page counter,
   which never passes the maximum by more than one; with a maximum of 0 or
   less no page request is issued. *)
PaginationTerminates == []PagesWithinBudget /\ [][PageLoopStep]_vars

(* a provider whose server kept sending fresh next links was stopped on the
   limit after exactly max_pages_per_provider = 2 page requests *)
PaginationTerminatesWitness ==
    /\ pc = "details"
    /\ stop = "limit"
    /\ cfg.max_pages_per_provider = 2
    /\ Len(PageRequests(brands[idx].id)) = 2
    /\ Cardinality(seen_urls) = 2
    /\ next_url \notin seen_urls

(***************************************************************************)
(* Properties of run_qa: the rows persisted, the dbt_tests gate            *)
(***************************************************************************)
(* C31: an evaluation that persists its results has produced exactly the six
   gate results providers_ok, dim_products_rows, rate_changes_rows,
   products_freshness_hours, schema_drift_events and dbt_tests, each once,
   and stored one row for each under one QA run id; a schema_drift_events
   result exists whether the gate is enabled or not and whether its count
   query answered or raised. *)
SixGatesPersisted ==
    /\ qa_table # {} => qa_pc = "returned"
    /\ qa_pc = "returned" =>
          /\ QaResultNames(qa_results) = QaGateNames
          /\ Cardinality(qa_table) = Len(QaGateNames)
          /\ {r.gate_name : r \in qa_table} = Range(QaGateNames)
          /\ \A r1, r2 \in qa_table :
                /\ r1.qa_run_id = r2.qa_run_id
                /\ r1.gate_name = r2.gate_name => r1 = r2
          /\ \A r \in qa_table : r.qa_run_id \in QaRunIds
          /\ Cardinality({r \in qa_table : r.gate_name = "schema_drift_events"}) = 1
    /\ qa_pc \in {"finish", "returned"} => Cardinality(DriftResults) = 1

(* the gate is disabled and the count query of the drift block raised: the
   six rows are stored, the schema_drift_events row among them as failed *)
SixGatesPersistedWitness ==
    /\ qa_pc = "returned"
    /\ ~qa_cfg.fail_on_schema_drift
    /\ qa_answer.raises
    /\ Cardinality(qa_table) = 6
    /\ \E r \in qa_table : r.gate_name = "schema_drift_events" /\ ~r.passed

(* C32: the test command is not executed when the tests are disabled, and
   the dbt_tests gate is then recorded as passed with detail "skipped"; when
   they are enabled the gate passes exactly when the command was started and
   exited with status 0, and no command makes run_qa raise: an empty command
   and a command that cannot be started give a failed gate. *)
DbtGateNeverRaises ==
    /\ qa_pc # "dbt raised"
    /\ (qa_dbt # None /\ ~qa_cfg.run_dbt_tests) => ~qa_dbt.executed
    /\ qa_pc = "returned" =>
          \A r \in qa_table :
              r.gate_name = "dbt_tests" =>
                 IF qa_cfg.run_dbt_tests
                 THEN /\ r.passed <=> (qa_dbt.executed /\ qa_dbt.command.returncode = 0)
                      /\ qa_dbt.command.split = "empty" => ~r.passed
                      /\ qa_dbt.command.start \in {"not found", "error"} => ~r.passed
                 ELSE r.passed /\ r.details.text = "skipped"

(***************************************************************************)
(* Properties of _clip_text                                                *)
(***************************************************************************)
(* what the claim says of the result of _clip_text(cl_s, cl_max) *)
ClipAsClaimed ==
    /\ Len(cl_s) <= cl_max => cl_out = cl_s
    /\ Len(cl_s) > cl_max => cl_out = SubSeq(cl_s, 1, cl_max - 3) \o Dots
    /\ Len(cl_out) <= cl_max

(* C35 as stated: for every string and every max_chars the result is the
   string itself when it is not longer than max_chars, else its first
   max_chars - 3 characters followed by three dots, and it is never longer than
   max_chars. *)
ClipBoundedForEveryMax == cl_pc = "done" => ClipAsClaimed

(* C35 amended: the same for every max_chars of at least 3; for a smaller
   max_chars a string that fits is returned unchanged and a longer one comes
   back as all but its last 3 - max_chars characters followed by three dots,
   which is longer than max_chars. *)
ClipBoundedFromThree ==
    cl_pc = "done" =>
        /\ cl_max >= 3 => ClipAsClaimed
        /\ Len(cl_s) <= cl_max => cl_out = cl_s
        /\ (cl_max < 3 /\ Len(cl_s) > cl_max) =>
              /\ Len(cl_out) > cl_max
              /\ Len(cl_out) >= 3
              /\ SubSeq(cl_out, Len(cl_out) - 2, Len(cl_out)) = Dots

(* a string of five characters clipped to four: one character and the dots *)
ClipBoundedWitness ==
    /\ cl_pc = "done"
    /\ cl_max = 4
    /\ Len(cl_s) = 5
    /\ cl_out = <<cl_s[1]>> \o Dots

(***************************************************************************)
(* Properties of record_and_detect_drift under two writers                 *)
(***************************************************************************)
RaceEvents ==
    {e \in dr_db.schema_drift_event :
        e.provider_id = RaceProvider /\ e.endpoint = RaceEndpoint}

(* two drift events that record the same change: the same old and new hash *)
RaceDuplicateEvents ==
    \E e1, e2 \in RaceEvents :
        /\ e1 # e2
        /\ e1.old_fingerprint_hash = e2.old_fingerprint_hash
        /\ e1.new_fingerprint_hash = e2.new_fingerprint_hash

(* the fingerprint row of the (provider, endpoint) just before time t *)
RaceRowsBefore(t) ==
    {r \in dr_db.schema_fingerprint :
        r.provider_id = RaceProvider /\ r.endpoint = RaceEndpoint /\ r.observed_at < t}

(* C38: when the two calls do not overlap, every drift event stands for a
   change between two successive fingerprint rows, so one change gives at
   most one event; two events for the same change occur only when a writer
   read the previous hash while the other was between its read and its
   writes. *)
OneEventPerChangeWhenSequential ==
    /\ RaceDuplicateEvents => rc_overlap
    /\ ~rc_overlap =>
          \A e \in RaceEvents :
              \E r \in RaceRowsBefore(e.observed_at) :
                  /\ r.fingerprint_hash = e.old_fingerprint_hash
                  /\ r.fingerprint_hash # e.new_fingerprint_hash
                  /\ \A q \in RaceRowsBefore(e.observed_at) : q.observed_at <= r.observed_at

(* the interleaving of the claim: both writers read the same previous hash
   before either wrote, both stored the same new fingerprint and each
   recorded a drift event for the one change *)
RaceTwoEventsWitness ==
    /\ \A w \in Writers : rc_pc[w] = "done"
    /\ rc_overlap
    /\ rc_old[1] = rc_old[2]
    /\ rc_in[1].payload = rc_in[2].payload
    /\ Cardinality(RaceEvents) = 2
    /\ RaceDuplicateEvents

(***************************************************************************)
(* Properties of the keys written by the units of different providers      *)
(***************************************************************************)
(* the rows of table t that provider w did not write *)
RowsOfOthers(db, t, w) == {r \in db[t] : r.provider_id # w}

WorkerStep ==
    LET last == up_hist'[Len(up_hist')]
    IN /\ \A t \in WorkerTables :
             /\ RowsOfOthers(up_db', t, last.worker) = RowsOfOthers(up_db, t, last.worker)
             \* the row written is in the table under the key of the statement
             /\ (t = last.table /\ ~last.raised) =>
                   \E r \in up_db'[t] :
                       PrimaryKey(t, r) = last.key /\ r.provider_id = last.worker
       \* a statement fails on its key only against a row of the same provider
       /\ last.raised <=>
             /\ last.table \in {"schema_fingerprint", "schema_drift_event"}
             /\ \E i \in DOMAIN up_hist :
                   /\ up_hist[i].worker = last.worker
                   /\ up_hist[i].table = last.table
                   /\ up_hist[i].key = last.key

KeysDisjoint ==
    /\ \A i, j \in DOMAIN up_hist :
          (up_hist[i].worker # up_hist[j].worker /\ up_hist[i].table = up_hist[j].table)
              => up_hist[i].key # up_hist[j].key
    /\ \A t \in WorkerTables : \A r1, r2 \in up_db[t] :
          PrimaryKey(t, r1) = PrimaryKey(t, r2) => r1 = r2

(* C34: the primary keys that the unit of one provider writes in the api
   call log, the raw page and raw detail tables, the fingerprints and the
   drift events differ from those of every other provider, so in every
   interleaving a write leaves the rows of the other providers as they were
   and fails on its key only against a row of its own provider. *)
ProviderKeysDisjoint == []KeysDisjoint /\ [][WorkerStep]_vars

(* both workers logged the call of the same URL and stored the fingerprint
   of the same instant; the three rows stand side by side *)
ProviderKeysDisjointWitness ==
    /\ Len(up_hist) = 3
    /\ \A i \in DOMAIN up_hist : ~up_hist[i].raised
    /\ Cardinality(up_db.api_call_log) = 2
    /\ \A r \in up_db.api_call_log : r.url = WorkerUrl /\ r.http_status = 200
    /\ Cardinality(up_db.schema_fingerprint) = 1

====
